---------------------------- MODULE Spec2Model ----------------------------
(***************************************************************************)
(* Model of the freshservice-rag documentation extraction and retrieval    *)
(* engine: src/scraper/freshservice_scraper.rs (extraction of endpoint     *)
(* records from an HTML document) and src/rag/pipeline.rs (relevance       *)
(* scoring, ranking, confidence estimation, context formatting).           *)
(*                                                                         *)
(* Strings are TLA+ strings (Len, SubSeq, \o act on them character by      *)
(* character).  f32 values are held as their IEEE-754 binary32 bit         *)
(* pattern, a natural number: for the non-negative finite values the       *)
(* program computes, the order of the bit patterns is the order of the     *)
(* values, and every arithmetic step rounds to nearest, ties to even, as   *)
(* the hardware does.                                                      *)
(***************************************************************************)
EXTENDS Integers, Sequences, FiniteSets, TLC

-----------------------------------------------------------------------------
(* Strings: the str methods the program calls *)

Upper == "ABCDEFGHIJKLMNOPQRSTUVWXYZ"
Lower == "abcdefghijklmnopqrstuvwxyz"
Digits == "0123456789"

\* the character at position i, "" beyond the ends of the string
CharAt(s, i) == IF i \in 1..Len(s) THEN SubSeq(s, i, i) ELSE ""

CharsOf(s) == { CharAt(s, i) : i \in 1..Len(s) }

\* char::is_whitespace, on the characters the inputs use
Whitespace == {" ", "\t", "\n", "\r"}

\* char::to_lowercase / to_uppercase (ASCII letters; other characters map to themselves)
LowerChar(c) ==
    IF \E i \in 1..26 : CharAt(Upper, i) = c
    THEN CharAt(Lower, CHOOSE i \in 1..26 : CharAt(Upper, i) = c)
    ELSE c

UpperChar(c) ==
    IF \E i \in 1..26 : CharAt(Lower, i) = c
    THEN CharAt(Upper, CHOOSE i \in 1..26 : CharAt(Lower, i) = c)
    ELSE c

RECURSIVE to_lowercase(_)
to_lowercase(s) ==
    IF Len(s) <= 1 THEN LowerChar(s)
    ELSE to_lowercase(SubSeq(s, 1, Len(s) \div 2))
         \o to_lowercase(SubSeq(s, Len(s) \div 2 + 1, Len(s)))

\* str::contains(&str): a substring test; the empty pattern is in every string
contains(s, pat) ==
    \E i \in 0..(Len(s) - Len(pat)) : SubSeq(s, i + 1, i + Len(pat)) = pat

ends_with(s, pat) ==
    Len(pat) <= Len(s) /\ SubSeq(s, Len(s) - Len(pat) + 1, Len(s)) = pat

\* str::split_whitespace: the maximal runs of non-whitespace characters, in order
RECURSIVE SplitFrom(_, _, _)
SplitFrom(s, i, cur) ==
    IF i > Len(s)
    THEN (IF cur = "" THEN <<>> ELSE <<cur>>)
    ELSE IF CharAt(s, i) \in Whitespace
         THEN (IF cur = "" THEN <<>> ELSE <<cur>>) \o SplitFrom(s, i + 1, "")
         ELSE SplitFrom(s, i + 1, cur \o CharAt(s, i))

split_whitespace(s) == SplitFrom(s, 1, "")

\* str::trim: leading and trailing whitespace removed
RECURSIVE trim_start(_)
trim_start(s) ==
    IF s # "" /\ Head(s) \in Whitespace THEN trim_start(Tail(s)) ELSE s

RECURSIVE trim_end(_)
trim_end(s) ==
    IF s # "" /\ CharAt(s, Len(s)) \in Whitespace
    THEN trim_end(SubSeq(s, 1, Len(s) - 1))
    ELSE s

trim(s) == trim_end(trim_start(s))

\* str::trim_end_matches(char)
RECURSIVE trim_end_matches(_, _)
trim_end_matches(s, c) ==
    IF s # "" /\ CharAt(s, Len(s)) = c
    THEN trim_end_matches(SubSeq(s, 1, Len(s) - 1), c)
    ELSE s

\* str::matches(char).count()
CountChar(s, c) == Cardinality({ i \in 1..Len(s) : CharAt(s, i) = c })

\* the number of (possibly overlapping) occurrences of pat in s
CountOcc(s, pat) ==
    Cardinality({ i \in 0..(Len(s) - Len(pat)) : SubSeq(s, i + 1, i + Len(pat)) = pat })

\* Option<T>: None is the empty sequence, Some(v) the one-element sequence
None == <<>>
Some(v) == <<v>>

-----------------------------------------------------------------------------
(* f32 arithmetic on bit patterns (non-negative, finite, normal values) *)

\* the number of bits of n >= 1 (n < 2^31)
BitLen(n) == CHOOSE k \in 1..31 : n >= 2^(k - 1) /\ (k = 31 \/ n < 2^k)

\* the 24-bit significand (hidden bit included) and the exponent of its unit
FMant(b) == IF b = 0 THEN 0 ELSE (b % 2^23) + 2^23
FExp(b) == (b \div 2^23) - 150

\* the f32 nearest to (n + f) * 2^e, where n >= 1 and 0 <= f < 1 with
\* f > 0 iff sticky; ties go to the even significand.  When bits are
\* dropped with sticky set, at least one bit of n is dropped too.
RoundPack(n, sticky, e) ==
    LET L == BitLen(n) IN
    IF L <= 24
    THEN (e - (24 - L) + 150) * 2^23 + (n * 2^(24 - L) - 2^23)
    ELSE LET k == L - 24
             q == n \div 2^k
             r == n % 2^k
             half == 2^(k - 1)
             up == r > half \/ (r = half /\ (sticky \/ q % 2 = 1))
         IN (e + k + 150) * 2^23 + ((IF up THEN q + 1 ELSE q) - 2^23)

\* `n as f32` for a small count n
FInt(n) == IF n = 0 THEN 0 ELSE RoundPack(n, FALSE, 0)

\* a + b
FAdd(a, b) ==
    IF a = 0 THEN b
    ELSE IF b = 0 THEN a
    ELSE LET hi == IF a >= b THEN a ELSE b
             lo == IF a >= b THEN b ELSE a
             d == FExp(hi) - FExp(lo)
         IN IF d <= 6
            THEN RoundPack(FMant(hi) * 2^d + FMant(lo), FALSE, FExp(lo))
            ELSE IF d >= 26
            THEN hi
            ELSE RoundPack(FMant(hi) * 64 + (FMant(lo) \div 2^(d - 6)),
                           (FMant(lo) % 2^(d - 6)) # 0, FExp(hi) - 6)

\* a * b: the 48-bit product of the significands from 12-bit halves
FMul(a, b) ==
    IF a = 0 \/ b = 0 THEN 0
    ELSE LET ah == FMant(a) \div 4096
             al == FMant(a) % 4096
             bh == FMant(b) \div 4096
             bl == FMant(b) % 4096
             ll == al * bl
             t == ah * bl + al * bh + (ll \div 4096)
             low == (t % 4096) * 4096 + (ll % 4096)
             high == ah * bh + (t \div 4096)
         IN RoundPack(high * 64 + (low \div 2^18), (low % 2^18) # 0,
                      FExp(a) + FExp(b) + 18)

\* a / k for a small whole divisor k (1 <= k <= 16)
FDivSmall(a, k) ==
    IF a = 0 THEN 0
    ELSE LET n == FMant(a) * 64
         IN RoundPack(n \div k, (n % k) # 0, FExp(a) - 6)

\* the f32 a decimal literal n/d denotes (n, d small whole numbers)
FLit(n, d) == FDivSmall(FInt(n), d)

\* f32::min, f32::clamp
FMin(a, b) == IF a <= b THEN a ELSE b
FClamp(a, lo, hi) == IF a < lo THEN lo ELSE IF a > hi THEN hi ELSE a

-----------------------------------------------------------------------------
(* Data model: src/models/api_docs.rs *)

ApiParameter(name, param_type, description, required, default) ==
    [name |-> name, param_type |-> param_type, description |-> description,
     required |-> required, default |-> default]

ApiEndpoint(name, description, method, path, parameters, curl_example) ==
    [name |-> name, description |-> description, method |-> method,
     path |-> path, parameters |-> parameters, curl_example |-> curl_example]

ScrapedDocumentation(base_url, endpoints, scraped_at) ==
    [base_url |-> base_url, endpoints |-> endpoints, scraped_at |-> scraped_at]

-----------------------------------------------------------------------------
(* The built-in catalog: FreshserviceScraper::fallback_endpoint_extraction *)

fallback_endpoint_extraction ==
    << ApiEndpoint("Create Ticket", "Create a new ticket in Freshservice",
         "POST", "/api/v2/tickets",
         << ApiParameter("subject", "string", "Subject of the ticket", TRUE, None),
            ApiParameter("description", "string", "HTML content of the ticket", TRUE, None),
            ApiParameter("email", "string", "Email address of the requester", TRUE, None),
            ApiParameter("priority", "integer", "Priority of the ticket (1-4)", FALSE, Some("1")),
            ApiParameter("status", "integer", "Status of the ticket (2-5)", FALSE, Some("2")) >>,
         Some("curl -v -u yourapikey:X -H \"Content-Type: application/json\" -d '{\"subject\":\"Ticket Title\",\"description\":\"<h2>Ticket content</h2>\",\"email\":\"user@example.com\",\"priority\":1,\"status\":2}' -X POST \"https://domain.freshservice.com/api/v2/tickets\"")),
       ApiEndpoint("Get Ticket", "Retrieve a specific ticket by ID",
         "GET", "/api/v2/tickets/{id}",
         << ApiParameter("id", "integer", "Unique identifier of the ticket", TRUE, None),
            ApiParameter("include", "string", "Include additional data (conversations, requester, stats)", FALSE, None) >>,
         Some("curl -v -u yourapikey:X -X GET \"https://domain.freshservice.com/api/v2/tickets/1\"")),
       ApiEndpoint("List Tickets", "Get a list of all tickets with optional filtering",
         "GET", "/api/v2/tickets",
         << ApiParameter("page", "integer", "Page number for pagination", FALSE, Some("1")),
            ApiParameter("per_page", "integer", "Number of records per page (max 100)", FALSE, Some("30")),
            ApiParameter("filter", "string", "Filter tickets by predefined filters", FALSE, None) >>,
         Some("curl -v -u yourapikey:X -X GET \"https://domain.freshservice.com/api/v2/tickets?page=1&per_page=30\"")),
       ApiEndpoint("Update Ticket", "Update an existing ticket",
         "PUT", "/api/v2/tickets/{id}",
         << ApiParameter("id", "integer", "Unique identifier of the ticket", TRUE, None),
            ApiParameter("priority", "integer", "Priority of the ticket", FALSE, None),
            ApiParameter("status", "integer", "Status of the ticket", FALSE, None) >>,
         Some("curl -v -u yourapikey:X -H \"Content-Type: application/json\" -d '{\"priority\":2,\"status\":3}' -X PUT \"https://domain.freshservice.com/api/v2/tickets/1\"")),
       ApiEndpoint("Delete Ticket", "Delete a ticket permanently",
         "DELETE", "/api/v2/tickets/{id}",
         << ApiParameter("id", "integer", "Unique identifier of the ticket to delete", TRUE, None) >>,
         Some("curl -v -u yourapikey:X -X DELETE \"https://domain.freshservice.com/api/v2/tickets/1\"")) >>

-----------------------------------------------------------------------------
(* The parsed HTML document: scraper::Html as the program reads it *)

\* An element: its tag, id attribute ("" when absent), class list, the index
\* of its parent element (0: the body) and the text it holds itself.  A
\* document is the sequence of its elements below the body, in document order.
Node(tag, id, class, parent, text) ==
    [tag |-> tag, id |-> id, class |-> class, parent |-> parent, text |-> text]

RECURSIVE IsDescendant(_, _, _)
IsDescendant(doc, j, i) ==
    IF doc[j].parent = 0 THEN FALSE
    ELSE IF doc[j].parent = i THEN TRUE
    ELSE IsDescendant(doc, doc[j].parent, i)

\* ElementRef::text().collect::<String>(): the text of the element and of
\* everything below it, in document order
RECURSIVE TextFrom(_, _, _)
TextFrom(doc, root, k) ==
    IF k > Len(doc) THEN ""
    ELSE (IF k = root \/ IsDescendant(doc, k, root) THEN doc[k].text ELSE "")
         \o TextFrom(doc, root, k + 1)

ElemText(doc, root) == TextFrom(doc, root, root)

\* the selectors the scraper parses, each as a test on one element
SelTicketDiv(n) == n.tag = "div" /\ contains(n.id, "ticket")
SelMainSection(n) == n.tag = "div" /\ n.id = "tickets"
SelCodeBlock(n) == n.tag = "pre" \/ "highlight" \in n.class

\* Selector::parse(selector) matched against one element
Matches(selector, n) ==
    CASE selector = "div[id*='ticket']" -> SelTicketDiv(n)
      [] selector = "div#tickets" -> SelMainSection(n)
      [] selector = "pre, .highlight" -> SelCodeBlock(n)
      [] OTHER -> n.tag = selector

\* ElementRef::select / Html::select: the elements below root (0: the whole
\* document) the selector matches, in document order
Select(doc, root, selector) ==
    SelectSeq([k \in 1..Len(doc) |-> k],
              LAMBDA k : (root = 0 \/ IsDescendant(doc, k, root))
                         /\ Matches(selector, doc[k]))

-----------------------------------------------------------------------------
(* Path and method extraction: src/scraper/freshservice_scraper.rs *)

\* [a-zA-Z0-9/_\-{}]
PathChars ==
    CharsOf(Upper) \cup CharsOf(Lower) \cup CharsOf(Digits) \cup {"/", "_", "-", "{", "}"}

\* the length of the longest run of characters of a class that starts at i
RECURSIVE RunLenIn(_, _, _)
RunLenIn(s, i, class) ==
    IF i <= Len(s) /\ CharAt(s, i) \in class THEN 1 + RunLenIn(s, i + 1, class) ELSE 0

\* the same for a negated class such as [^/]
RECURSIVE RunLenNotIn(_, _, _)
RunLenNotIn(s, i, class) ==
    IF i <= Len(s) /\ CharAt(s, i) \notin class
    THEN 1 + RunLenNotIn(s, i + 1, class) ELSE 0

StartsAt(s, i, lit) ==
    i >= 1 /\ i + Len(lit) - 1 <= Len(s) /\ SubSeq(s, i, i + Len(lit) - 1) = lit

\* variant of PathOfRun: the capture takes the character after the run too
PathOfRunOneMore(s, i, run) ==
    IF StartsAt(s, i, "/api/v2/") /\ run >= 1
    THEN Some(SubSeq(s, i, IF i + 8 + run <= Len(s) THEN i + 8 + run ELSE Len(s)))
    ELSE None

\* "/api/v2/" at i followed by a run of `run` path characters: the capture
PathOfRun(s, i, run) ==
    IF StartsAt(s, i, "/api/v2/") /\ run >= 1 THEN Some(SubSeq(s, i, i + 7 + run)) ELSE None

\* (/api/v2/[a-zA-Z0-9/_\-{}]+) matched at position i: the capture, greedy
PathAt(s, i) == PathOfRun(s, i, RunLenIn(s, i + 8, PathChars))

\* "https://" at i followed by a host of `host` characters and the path
FullUrlOfHost(s, i, host) ==
    IF StartsAt(s, i, "https://") /\ host >= 1 THEN PathAt(s, i + 8 + host) ELSE None

\* https://[^/]+(/api/v2/...) matched at position i
FullUrlAt(s, i) == FullUrlOfHost(s, i, RunLenNotIn(s, i + 8, {"/"}))

\* a quote at i, the path `path` after it, and the closing quote
QuotedPath(s, i, quote, path) ==
    IF CharAt(s, i) = quote /\ path # None /\ CharAt(s, i + 1 + Len(path[1])) = quote
    THEN path
    ELSE None

\* '(/api/v2/...)' and "(/api/v2/...)" matched at position i
QuotedAt(s, i, quote) == QuotedPath(s, i, quote, PathAt(s, i + 1))

\* the run of value characters [^\s,\.]+ that starts at `start`
DefaultValueAt(s, start) ==
    SubSeq(s, start, start - 1 + RunLenNotIn(s, start, Whitespace \cup {",", "."}))

\* the separator run [:\s]+ is greedy and gives characters back until a value
\* character follows it: ks holds the separator lengths a value can follow
DefaultAfter(s, i, ks) ==
    IF ks = {} THEN None
    ELSE Some(DefaultValueAt(s, i + (CHOOSE x \in ks : \A y \in ks : y <= x)))

DefaultOfSep(s, i, sep) ==
    DefaultAfter(s, i, { k \in 1..sep :
                           RunLenNotIn(s, i + k, Whitespace \cup {",", "."}) >= 1 })

\* [Dd]efault[:\s]+([^\s,\.]+) matched at position i
DefaultAt(s, i) ==
    IF StartsAt(s, i, "Default") \/ StartsAt(s, i, "default")
    THEN DefaultOfSep(s, i + 7, RunLenIn(s, i + 7, Whitespace \cup {":"}))
    ELSE None

\* the capture group of a pattern matched at position i (None: no match there)
MatchAt(pattern, s, i) ==
    CASE pattern = "full url" -> FullUrlAt(s, i)
      [] pattern = "single quoted" -> QuotedAt(s, i, "'")
      [] pattern = "double quoted" -> QuotedAt(s, i, "\"")
      [] pattern = "plain" -> PathAt(s, i)
      [] pattern = "default" -> DefaultAt(s, i)

\* the capture at the leftmost of the positions where the pattern matches
CaptureAmong(text, pattern, starts) ==
    IF starts = {} THEN None
    ELSE MatchAt(pattern, text, CHOOSE i \in starts : \A j \in starts : i <= j)

\* Regex::captures: the capture of the leftmost match of a pattern in text
Captures(text, pattern) ==
    CaptureAmong(text, pattern, { i \in 1..Len(text) : MatchAt(pattern, text, i) # None })

\* the clean-up of a captured path
CleanPath(path) ==
    trim_end_matches(trim_end_matches(trim_end_matches(path, "'"), "\""), "\\")

\* the patterns of extract_path_from_text, in the order they are tried
PathPatterns == << "full url", "single quoted", "double quoted", "plain" >>

\* the capture of the first pattern that matched, cleaned; "/api/v2/unknown"
\* when none did
FirstCapture(caps) ==
    IF \A k \in 1..Len(caps) : caps[k] = None THEN "/api/v2/unknown"
    ELSE CleanPath(caps[CHOOSE k \in 1..Len(caps) :
                          caps[k] # None /\ \A l \in 1..(k - 1) : caps[l] = None][1])

\* FreshserviceScraper::extract_path_from_text
extract_path_from_text(text) ==
    FirstCapture([k \in 1..Len(PathPatterns) |-> Captures(text, PathPatterns[k])])

\* variant of SectionMethod: the GET test comes first
SectionMethodGetFirst(curl) ==
    IF contains(curl, "-X GET") \/ contains(curl, "curl") THEN Some("GET")
    ELSE IF contains(curl, "-X POST") THEN Some("POST")
    ELSE IF contains(curl, "-X PUT") THEN Some("PUT")
    ELSE IF contains(curl, "-X DELETE") THEN Some("DELETE")
    ELSE IF contains(curl, "-X PATCH") THEN Some("PATCH")
    ELSE None

\* variant of SectionMethod: a text without "curl" is given up
SectionMethodCurlOnly(curl) ==
    IF ~contains(curl, "curl") THEN None
    ELSE IF contains(curl, "-X POST") THEN Some("POST")
    ELSE IF contains(curl, "-X PUT") THEN Some("PUT")
    ELSE IF contains(curl, "-X DELETE") THEN Some("DELETE")
    ELSE IF contains(curl, "-X PATCH") THEN Some("PATCH")
    ELSE Some("GET")

\* the method cascade of parse_endpoint_section (None: the section is given up)
SectionMethod(curl) ==
    IF contains(curl, "-X POST") THEN Some("POST")
    ELSE IF contains(curl, "-X PUT") THEN Some("PUT")
    ELSE IF contains(curl, "-X DELETE") THEN Some("DELETE")
    ELSE IF contains(curl, "-X PATCH") THEN Some("PATCH")
    ELSE IF contains(curl, "-X GET") \/ contains(curl, "curl") THEN Some("GET")
    ELSE None

\* variant of CodeBlockMethod: the token after -X is taken for -X GET only,
\* and a text without any token gets no method
CodeBlockMethodNoDefault(code_text) ==
    IF contains(code_text, "-X POST") THEN "POST"
    ELSE IF contains(code_text, "-X PUT") THEN "PUT"
    ELSE IF contains(code_text, "-X DELETE") THEN "DELETE"
    ELSE IF contains(code_text, "-X PATCH") THEN "PATCH"
    ELSE IF contains(code_text, "-X GET") THEN "GET"
    ELSE ""

\* the method cascade of extract_code_blocks_from_section
CodeBlockMethod(code_text) ==
    IF contains(code_text, "-X POST") THEN "POST"
    ELSE IF contains(code_text, "-X PUT") THEN "PUT"
    ELSE IF contains(code_text, "-X DELETE") THEN "DELETE"
    ELSE IF contains(code_text, "-X PATCH") THEN "PATCH"
    ELSE "GET"

\* format!("{} {}", method, path): the deduplication key
EndpointKey(method, path) == method \o " " \o path

-----------------------------------------------------------------------------
(* Parameter tables: extract_parameters_from_section, parse_parameter_row *)

\* cap.get(1).map(..).unwrap_or_default(), String::new() when nothing matched
CaptureOrEmpty(cap) == IF cap # None THEN cap[1] ELSE ""

extract_default_value(description) == CaptureOrEmpty(Captures(description, "default"))

\* variant of GuessType: "number" is not folded into "integer"
GuessTypeNumberKept(desc_lower) ==
    IF contains(desc_lower, "integer") THEN "integer"
    ELSE IF contains(desc_lower, "number") THEN "number"
    ELSE IF contains(desc_lower, "boolean") THEN "boolean"
    ELSE IF contains(desc_lower, "array") THEN "array"
    ELSE "string"

\* the type guessed from the description when the row has no third cell
GuessType(desc_lower) ==
    IF contains(desc_lower, "integer") \/ contains(desc_lower, "number") THEN "integer"
    ELSE IF contains(desc_lower, "boolean") THEN "boolean"
    ELSE IF contains(desc_lower, "array") THEN "array"
    ELSE "string"

\* variant of RowParameter: required on the word "required" only
RowParameterRequiredWordOnly(name, description, desc_lower, third) ==
    IF name = "" THEN None
    ELSE Some(ApiParameter(
           name,
           IF third # None THEN to_lowercase(third[1]) ELSE GuessType(desc_lower),
           description,
           contains(desc_lower, "required"),
           IF contains(desc_lower, "default")
           THEN Some(extract_default_value(description)) ELSE None))

\* the parameter of a row from its name, its description (as written and
\* lowercased) and the third cell when the row has one
RowParameter(name, description, desc_lower, third) ==
    IF name = "" THEN None
    ELSE Some(ApiParameter(
           name,
           IF third # None THEN to_lowercase(third[1]) ELSE GuessType(desc_lower),
           description,
           contains(desc_lower, "required") \/ contains(desc_lower, "mandatory"),
           IF contains(desc_lower, "default")
           THEN Some(extract_default_value(description)) ELSE None))

\* the parameter of a row from the trimmed texts of its td cells
RowOfCells(cells) ==
    IF Len(cells) >= 2
    THEN RowParameter(cells[1], cells[2], to_lowercase(cells[2]),
                      IF Len(cells) >= 3 THEN Some(cells[3]) ELSE None)
    ELSE None

\* the trimmed texts of elements
TrimmedTexts(doc, elems) == [k \in 1..Len(elems) |-> trim(ElemText(doc, elems[k]))]

\* FreshserviceScraper::parse_parameter_row (None: the row gives no parameter)
parse_parameter_row(doc, row) == RowOfCells(TrimmedTexts(doc, Select(doc, row, "td")))

\* the Some(..) values of a sequence of options, in order
RECURSIVE Flatten(_)
Flatten(opts) ==
    IF opts = <<>> THEN <<>> ELSE Head(opts) \o Flatten(Tail(opts))

\* the rows of one table after the header row, each parsed
ParseRows(doc, rows) ==
    Flatten([k \in 1..(Len(rows) - 1) |-> parse_parameter_row(doc, rows[k + 1])])

IsParameterTable(table_text) ==
    \/ contains(table_text, "parameter")
    \/ contains(table_text, "attribute")
    \/ contains(table_text, "field")

\* the parameters of one table, none when it is not a parameter table
ParseTable(doc, table) ==
    IF IsParameterTable(to_lowercase(ElemText(doc, table)))
    THEN ParseRows(doc, Select(doc, table, "tr"))
    ELSE <<>>

\* the parameter lists of the tables, one after the other
RECURSIVE Concat(_)
Concat(lists) ==
    IF lists = <<>> THEN <<>> ELSE Head(lists) \o Concat(Tail(lists))

ParseTables(doc, tables) == Concat([k \in 1..Len(tables) |-> ParseTable(doc, tables[k])])

\* FreshserviceScraper::extract_parameters_from_section
extract_parameters_from_section(doc, element) ==
    ParseTables(doc, Select(doc, element, "table"))

-----------------------------------------------------------------------------
(* Strategy A: one record per section, parse_endpoint_section *)

\* variant of SectionRecord: the placeholder path is not tested for
SectionRecordKeepUnknown(description, curl, method, path, parameters) ==
    IF method = None THEN None
    ELSE Some(ApiEndpoint(description, description, method[1], path, parameters,
                          Some(curl)))

\* the record of a section from its heading, its curl text and what was
\* extracted from the curl text (None: no record for the section)
SectionRecord(description, curl, method, path, parameters) ==
    IF method = None THEN None
    ELSE IF path = "/api/v2/unknown" THEN None
    ELSE Some(ApiEndpoint(description, description, method[1], path, parameters,
                          Some(curl)))

\* the record of a section from its heading and the text of its first code block
SectionOfCurl(doc, element, description, curl) ==
    SectionRecord(description, curl, SectionMethod(curl), extract_path_from_text(curl),
                  extract_parameters_from_section(doc, element))

\* the record of a section from its h2 elements and its code blocks
SectionOf(doc, element, h2s, codes) ==
    IF codes = <<>> THEN None
    ELSE SectionOfCurl(doc, element,
                       IF h2s # <<>> THEN trim(ElemText(doc, h2s[1])) ELSE "API endpoint",
                       trim(ElemText(doc, codes[1])))

\* FreshserviceScraper::parse_endpoint_section (None: no record for the section)
parse_endpoint_section(doc, element) ==
    SectionOf(doc, element, Select(doc, element, "h2"),
              Select(doc, element, "pre, .highlight"))

-----------------------------------------------------------------------------
(* Strategy B: one record per code block of the main section *)

RECURSIVE ReplaceChar(_, _, _)
ReplaceChar(s, from, to) ==
    IF Len(s) <= 1 THEN (IF s = from THEN to ELSE s)
    ELSE ReplaceChar(SubSeq(s, 1, Len(s) \div 2), from, to)
         \o ReplaceChar(SubSeq(s, Len(s) \div 2 + 1, Len(s)), from, to)

RECURSIVE Join(_, _)
Join(words, sep) ==
    IF words = <<>> THEN ""
    ELSE IF Len(words) = 1 THEN words[1]
    ELSE words[1] \o sep \o Join(Tail(words), sep)

Capitalized(words) ==
    [k \in 1..Len(words) |-> UpperChar(Head(words[k])) \o Tail(words[k])]

\* an element id as a readable name: "create_ticket" gives "Create Ticket"
IdToName(id) == Join(Capitalized(split_whitespace(ReplaceChar(id, "_", " "))), " ")

\* a heading text, when it is not empty and shorter than 100
UsableHeading(text) == IF text # "" /\ Len(text) < 100 THEN Some(text) ELSE None

\* the text of the first of the h2 elements, when there is one and it is usable
FirstHeading(doc, h2s) ==
    IF h2s = <<>> THEN None ELSE UsableHeading(trim(ElemText(doc, h2s[1])))

\* the text of the first h2 below an element (0: the body), when usable
HeadingBelow(doc, elem) == FirstHeading(doc, Select(doc, elem, "h2"))

\* the walk up the ancestors of a code block, `left` steps remaining; above
\* the top-level elements come the body and the html element, neither with an id
RECURSIVE DescriptionWalk(_, _, _)
DescriptionWalk(doc, current, left) ==
    IF left = 0 THEN None
    ELSE IF doc[current].parent = 0 THEN HeadingBelow(doc, 0)
    ELSE IF doc[doc[current].parent].id # ""
    THEN Some(IdToName(doc[doc[current].parent].id))
    ELSE IF HeadingBelow(doc, doc[current].parent) # None
    THEN HeadingBelow(doc, doc[current].parent)
    ELSE DescriptionWalk(doc, doc[current].parent, left - 1)

\* FreshserviceScraper::find_description_for_code_block
find_description_for_code_block(doc, code_elem) == DescriptionWalk(doc, code_elem, 5)

\* FreshserviceScraper::infer_description_from_path: the first arm that matches
infer_description_from_path(path, method) ==
    LET one == contains(path, "/tickets/{id}") \/ CountChar(path, "/") = 4
    IN IF method = "POST" /\ ends_with(path, "/tickets") THEN "Create a Ticket"
       ELSE IF method = "GET" /\ one THEN "View a Ticket"
       ELSE IF method = "GET" /\ ends_with(path, "/tickets") THEN "List All Tickets"
       ELSE IF method = "PUT" /\ one THEN "Update a Ticket"
       ELSE IF method = "DELETE" /\ one THEN "Delete a Ticket"
       ELSE IF method = "PUT" /\ contains(path, "/restore") THEN "Restore a Ticket"
       ELSE IF method = "POST" /\ contains(path, "/notes") THEN "Create Ticket Note"
       ELSE IF method = "GET" /\ contains(path, "/notes") /\ CountChar(path, "/") > 4
       THEN "View a Ticket Note"
       ELSE IF method = "GET" /\ contains(path, "/notes") THEN "List Ticket Notes"
       ELSE IF method = "PUT" /\ contains(path, "/notes") THEN "Update Ticket Note"
       ELSE IF method = "DELETE" /\ contains(path, "/notes") THEN "Delete Ticket Note"
       ELSE IF method = "POST" /\ contains(path, "/tasks") THEN "Create Ticket Task"
       ELSE IF method = "GET" /\ contains(path, "/tasks") THEN "View Ticket Tasks"
       ELSE IF method = "PUT" /\ contains(path, "/tasks") THEN "Update Ticket Task"
       ELSE IF method = "DELETE" /\ contains(path, "/tasks") THEN "Delete Ticket Task"
       ELSE IF method = "POST" /\ contains(path, "/time_entries") THEN "Create Time Entry"
       ELSE IF method = "GET" /\ contains(path, "/time_entries") THEN "View Time Entries"
       ELSE IF method = "PUT" /\ contains(path, "/time_entries") THEN "Update Time Entry"
       ELSE IF method = "DELETE" /\ contains(path, "/time_entries") THEN "Delete Time Entry"
       ELSE method \o " Ticket Operation"

\* the description found for a code block, or else the one inferred
DescriptionOr(found, path, method) ==
    IF found # None THEN found[1] ELSE infer_description_from_path(path, method)

\* variant of CodeBlockRecord: the extracted path is not tested for "/tickets"
CodeBlockRecordAnyPath(code_text, method, path, found) ==
    IF ~contains(code_text, "curl") \/ ~contains(code_text, "/tickets") THEN None
    ELSE Some(ApiEndpoint(EndpointKey(method, path), DescriptionOr(found, path, method),
                          method, path, <<>>, Some(trim(code_text))))

\* the record of a code block from its text and what was extracted from it
\* (None: the block is passed over)
CodeBlockRecord(code_text, method, path, found) ==
    IF ~contains(code_text, "curl") \/ ~contains(code_text, "/tickets") THEN None
    ELSE IF ~contains(path, "/tickets") THEN None
    ELSE Some(ApiEndpoint(EndpointKey(method, path), DescriptionOr(found, path, method),
                          method, path, <<>>, Some(trim(code_text))))

CodeBlockOfText(doc, code_elem, code_text) ==
    CodeBlockRecord(code_text, CodeBlockMethod(code_text),
                    extract_path_from_text(code_text),
                    find_description_for_code_block(doc, code_elem))

\* the record of one code block
CodeBlockEndpoint(doc, code_elem) ==
    CodeBlockOfText(doc, code_elem, ElemText(doc, code_elem))

\* the records of the code blocks, in document order
CodeBlockEndpoints(doc, elems) ==
    Flatten([k \in 1..Len(elems) |-> CodeBlockEndpoint(doc, elems[k])])

\* the loop over the code blocks' records, with the function's own seen-set
RECURSIVE CodeBlockLoop(_, _, _)
CodeBlockLoop(records, endpoints, seen) ==
    IF records = <<>> THEN endpoints
    ELSE IF EndpointKey(Head(records).method, Head(records).path) \in seen
    THEN CodeBlockLoop(Tail(records), endpoints, seen)
    ELSE CodeBlockLoop(Tail(records), Append(endpoints, Head(records)),
                       seen \cup {EndpointKey(Head(records).method, Head(records).path)})

\* FreshserviceScraper::extract_code_blocks_from_section
extract_code_blocks_from_section(doc, section) ==
    CodeBlockLoop(CodeBlockEndpoints(doc, Select(doc, section, "pre, .highlight")),
                  <<>>, {})

-----------------------------------------------------------------------------
(* extract_endpoints: the two strategies over one seen-set, then the fallback *)

\* the accumulator of extract_endpoints: the Vec and the HashSet of keys
Acc(endpoints, seen) == [endpoints |-> endpoints, seen_paths |-> seen]

\* variant: the record is pushed whether or not its key was seen
PushAlways(acc, endpoint) ==
    Acc(Append(acc.endpoints, endpoint),
        acc.seen_paths \cup {EndpointKey(endpoint.method, endpoint.path)})

\* if !seen_paths.contains(&key) { seen_paths.insert(key); endpoints.push(endpoint) }
PushIfUnseen(acc, endpoint) ==
    IF EndpointKey(endpoint.method, endpoint.path) \in acc.seen_paths
    THEN acc
    ELSE Acc(Append(acc.endpoints, endpoint),
             acc.seen_paths \cup {EndpointKey(endpoint.method, endpoint.path)})

\* the loop that offers each record in turn to the accumulator
RECURSIVE PushEach(_, _)
PushEach(records, acc) ==
    IF records = <<>> THEN acc
    ELSE PushEach(Tail(records), PushIfUnseen(acc, Head(records)))

\* the ids of the container divs Strategy A passes over
ContainerIds == {"tickets", "tickets-panel", "ticket_attributes"}

\* the divs of Strategy A that are not containers
SectionDivs(doc, divs) == SelectSeq(divs, LAMBDA d : doc[d].id \notin ContainerIds)

\* the records of the sections that parse, in document order
SectionEndpoints(doc, divs) ==
    Flatten([k \in 1..Len(divs) |-> parse_endpoint_section(doc, divs[k])])

\* the loop of Strategy A over the divs whose id contains "ticket"
TicketDivLoop(doc, divs, acc) ==
    PushEach(SectionEndpoints(doc, SectionDivs(doc, divs)), acc)

\* Strategy B: the records of the first div#tickets, when there is one
CodeEndpoints(doc, sections) ==
    IF sections = <<>> THEN <<>>
    ELSE extract_code_blocks_from_section(doc, sections[1])

\* the loop of Strategy B over the records of the main section's code blocks
CodeEndpointsLoop(code_endpoints, acc) == PushEach(code_endpoints, acc)

\* variant: the catalog is appended to whatever was scraped
FallbackAppended(endpoints) == endpoints \o fallback_endpoint_extraction

\* if endpoints.is_empty() { endpoints = fallback } ; Ok(endpoints)
WithFallback(endpoints) ==
    IF endpoints = <<>> THEN fallback_endpoint_extraction ELSE endpoints


-----------------------------------------------------------------------------
(* Relevance scoring and ranking: src/rag/pipeline.rs *)

\* variant of WordHits: one hit at most, however many words occur
WordHitsAtMostOne(query_words, text) ==
    IF \E i \in 1..Len(query_words) : contains(text, query_words[i]) THEN 1 ELSE 0

\* the number of query words (repeats counted) that occur in text
WordHits(query_words, text) ==
    Cardinality({ i \in 1..Len(query_words) : contains(text, query_words[i]) })

\* the `for param in &endpoint.parameters` loop: the first parameter whose
\* name or description contains the query decides the bonus, then the loop breaks
RECURSIVE ParamBonus(_, _, _)
ParamBonus(parameters, i, query_lower) ==
    IF i > Len(parameters) THEN 0
    ELSE IF contains(to_lowercase(parameters[i].name), query_lower) THEN FLit(4, 10)
    ELSE IF contains(to_lowercase(parameters[i].description), query_lower) THEN FLit(2, 10)
    ELSE ParamBonus(parameters, i + 1, query_lower)

\* variant of MethodMatches: `all` where the code has `any`
MethodMatchesAll(method_lower, query_words) ==
    \A i \in 1..Len(query_words) :
        \/ method_lower = query_words[i]
        \/ (method_lower = "get" /\ query_words[i] \in {"list", "view", "fetch"})

MethodMatches(method_lower, query_words) ==
    \E i \in 1..Len(query_words) :
        \/ method_lower = query_words[i]
        \/ (method_lower = "get" /\ query_words[i] = "list")
        \/ (method_lower = "get" /\ query_words[i] = "view")
        \/ (method_lower = "get" /\ query_words[i] = "fetch")

\* the weighted sum before normalisation, accumulated in the order of the code
RawScore(endpoint, query_lower) ==
    LET query_words == split_whitespace(query_lower)
        name_lower == to_lowercase(endpoint.name)
        desc_lower == to_lowercase(endpoint.description)
        s1 == IF contains(name_lower, query_lower) THEN FAdd(0, FLit(2, 1)) ELSE 0
        s2 == FAdd(s1, FMul(FInt(WordHits(query_words, name_lower)), FLit(5, 10)))
        s3 == IF contains(desc_lower, query_lower) THEN FAdd(s2, FLit(1, 1)) ELSE s2
        s4 == FAdd(s3, FMul(FInt(WordHits(query_words, desc_lower)), FLit(3, 10)))
        s5 == IF contains(to_lowercase(endpoint.path), query_lower)
              THEN FAdd(s4, FLit(8, 10)) ELSE s4
        s6 == IF MethodMatches(to_lowercase(endpoint.method), query_words)
              THEN FAdd(s5, FLit(8, 10)) ELSE s5
        s7 == FAdd(s6, ParamBonus(endpoint.parameters, 1, query_lower))
        s8 == IF contains(query_lower, "curl") /\ endpoint.curl_example # None
              THEN FAdd(s7, FLit(1, 1)) ELSE s7
    IN s8

\* variant of calculate_relevance_score: the quotient is not capped at 1.0
ScoreUncapped(endpoint, query_lower) ==
    FDivSmall(RawScore(endpoint, query_lower), 7)

\* variant of calculate_relevance_score: the sum is normalised by 5.0
ScoreOverFive(endpoint, query_lower) ==
    FMin(FDivSmall(RawScore(endpoint, query_lower), 5), FLit(1, 1))

\* variant of calculate_relevance_score: 0.5 is added to the sum for a query
\* that mentions "api" or "freshservice"
ScoreWithDomainBonus(endpoint, query_lower) ==
    FMin(FDivSmall(FAdd(RawScore(endpoint, query_lower),
                        IF contains(query_lower, "api") \/ contains(query_lower, "freshservice")
                        THEN FLit(5, 10) ELSE 0), 7),
         FLit(1, 1))

\* RagPipeline::calculate_relevance_score: (score / 7.0).min(1.0)
calculate_relevance_score(endpoint, query_lower) ==
    FMin(FDivSmall(RawScore(endpoint, query_lower), 7), FLit(1, 1))

\* variant of IsRelevant: the threshold itself passes
IsRelevantInclusive(score) == score >= FLit(1, 10)

\* the filter of find_relevant_endpoints: score > 0.1
IsRelevant(score) == score > FLit(1, 10)

\* variant of InsertMatch: an element goes before the elements of equal score
RECURSIVE InsertMatchTiesFirst(_, _)
InsertMatchTiesFirst(sorted, m) ==
    IF sorted = <<>> THEN <<m>>
    ELSE IF Head(sorted).score > m.score
         THEN <<Head(sorted)>> \o InsertMatchTiesFirst(Tail(sorted), m)
         ELSE <<m>> \o sorted

\* slice::sort_by with |a, b| b.1.partial_cmp(&a.1): a stable sort, so an
\* element goes after every element already placed whose score is not smaller
RECURSIVE InsertMatch(_, _)
InsertMatch(sorted, m) ==
    IF sorted = <<>> THEN <<m>>
    ELSE IF Head(sorted).score >= m.score
         THEN <<Head(sorted)>> \o InsertMatch(Tail(sorted), m)
         ELSE <<m>> \o sorted

RECURSIVE SortMatches(_)
SortMatches(ms) ==
    IF ms = <<>> THEN <<>>
    ELSE InsertMatch(SortMatches(SubSeq(ms, 1, Len(ms) - 1)), ms[Len(ms)])

\* the score of every endpoint, in document order (the filter_map closure's `score`)
ScoreAll(endpoints, query) ==
    [i \in 1..Len(endpoints) |->
        calculate_relevance_score(endpoints[i], to_lowercase(query))]

\* the matches kept by the filter, in document order; ep is the index of the
\* endpoint the match refers to
RECURSIVE FilterMatches(_, _)
FilterMatches(all, i) ==
    IF i > Len(all) THEN <<>>
    ELSE (IF IsRelevant(all[i]) THEN <<[ep |-> i, score |-> all[i]]>> ELSE <<>>)
         \o FilterMatches(all, i + 1)

\* variant of find_relevant_endpoints: a query without words matches nothing
FindRelevantNoneForBlank(endpoints, query) ==
    IF split_whitespace(query) = <<>> THEN <<>>
    ELSE SortMatches(FilterMatches(ScoreAll(endpoints, query), 1))

\* RagPipeline::find_relevant_endpoints
find_relevant_endpoints(endpoints, query) ==
    SortMatches(FilterMatches(ScoreAll(endpoints, query), 1))

\* Vec::truncate
Truncate(v, limit) == IF Len(v) > limit THEN SubSeq(v, 1, limit) ELSE v

\* RagPipeline::get_top_matches
get_top_matches(endpoints, query, limit) ==
    Truncate(find_relevant_endpoints(endpoints, query), limit)

\* RagPipeline::new: the pipeline holds the snapshot it is given
RagPipelineNew(doc) == [documentation |-> doc]

\* RagPipeline::get_documentation: &self.documentation
get_documentation(pipeline) == pipeline.documentation

-----------------------------------------------------------------------------
(* Context formatting and confidence: src/rag/pipeline.rs *)

\* a whole number in decimal
RECURSIVE IntStr(_)
IntStr(n) ==
    IF n < 10 THEN CharAt(Digits, n + 1)
    ELSE IntStr(n \div 10) \o CharAt(Digits, (n % 10) + 1)

\* the value times 100, rounded to a whole number, ties to even: the digits
\* `{:.2}` prints (the exact binary value is rounded, as core::fmt does)
Hundredths(b) ==
    IF b = 0 THEN 0
    ELSE LET n0 == FMant(b) * 100
             s0 == 0 - FExp(b)
         IN IF s0 <= 0 THEN n0 * 2^(0 - s0)
            ELSE IF s0 > 60 THEN 0
            ELSE LET pre == IF s0 > 30 THEN s0 - 30 ELSE 0
                     n == n0 \div 2^pre
                     sticky == (n0 % 2^pre) # 0
                     s == s0 - pre
                     q == n \div 2^s
                     r == n % 2^s
                     half == 2^(s - 1)
                     up == r > half \/ (r = half /\ (sticky \/ q % 2 = 1))
                 IN IF up THEN q + 1 ELSE q

\* format!("{:.2}", score)
Fmt2(b) ==
    LET h == Hundredths(b)
    IN IntStr(h \div 100) \o "." \o CharAt(Digits, ((h \div 10) % 10) + 1)
                                 \o CharAt(Digits, (h % 10) + 1)

\* one "  - name (type) [Required]: description" line per parameter
RECURSIVE ParamLines(_, _)
ParamLines(parameters, i) ==
    IF i > Len(parameters) THEN ""
    ELSE "  - " \o parameters[i].name \o " (" \o parameters[i].param_type \o ")"
         \o (IF parameters[i].required THEN " [Required]" ELSE "")
         \o ": " \o parameters[i].description \o "\n"
         \o ParamLines(parameters, i + 1)

\* the block format_context renders for one match
ContextBlock(endpoint, score) ==
    "[Relevance: " \o Fmt2(score) \o "] " \o endpoint.name
        \o " (" \o endpoint.method \o ")\n"
        \o "Description: " \o endpoint.description \o "\n"
        \o "Path: " \o endpoint.path \o "\n"
        \o (IF endpoint.parameters # <<>>
            THEN "Parameters:\n" \o ParamLines(endpoint.parameters, 1) ELSE "")
        \o (IF endpoint.curl_example # None
            THEN "cURL Example:\n" \o endpoint.curl_example[1] \o "\n" ELSE "")
        \o "\n---\n\n"

\* variant of ContextTake: every match is rendered
ContextTakeAll(ms) == ms

\* how many matches format_context renders: matches.iter().take(5)
ContextTake(ms) == Truncate(ms, 5)

RECURSIVE ContextBlocks(_, _, _)
ContextBlocks(endpoints, ms, i) ==
    IF i > Len(ms) THEN ""
    ELSE ContextBlock(endpoints[ms[i].ep], ms[i].score)
         \o ContextBlocks(endpoints, ms, i + 1)

\* variant of format_context: no early return on an empty match list
FormatContextNoEmptyCase(endpoints, ms) ==
    <<ContextBlocks(endpoints, ContextTake(ms), 1),
      IF ms = <<>> THEN 0 ELSE ms[1].score>>

\* variant of format_context: the score of the last match is returned
FormatContextLastScore(endpoints, ms) ==
    IF ms = <<>> THEN <<"No relevant endpoints found.", 0>>
    ELSE <<ContextBlocks(endpoints, ContextTake(ms), 1), ms[Len(ms)].score>>

\* variant of format_context: an empty string is returned for no matches
FormatContextEmptyForNone(endpoints, ms) ==
    IF ms = <<>> THEN <<"", 0>>
    ELSE <<ContextBlocks(endpoints, ContextTake(ms), 1), ms[1].score>>

\* RagPipeline::format_context: (context, max_score)
format_context(endpoints, ms) ==
    IF ms = <<>> THEN <<"No relevant endpoints found.", 0>>
    ELSE <<ContextBlocks(endpoints, ContextTake(ms), 1), ms[1].score>>

api_terms ==
    << "api", "endpoint", "method", "curl", "request", "response",
       "ticket", "create", "get", "list", "update", "delete", "view",
       "post", "put", "patch", "fetch", "retrieve" >>

\* variant of assess_query_quality: the length score is 0.9 for every query
QualityLengthIgnored(query) ==
    LET query_lower == to_lowercase(query)
        term_matches ==
            Cardinality({ i \in 1..Len(api_terms) : contains(query_lower, api_terms[i]) })
        term_score == FMin(FDivSmall(FInt(term_matches), 3), FLit(1, 1))
    IN IF split_whitespace(query_lower) = <<>> THEN FLit(1, 10)
       ELSE FMin(FAdd(FMul(FLit(9, 10), FLit(6, 10)), FMul(term_score, FLit(4, 10))),
                 FLit(1, 1))

\* RagPipeline::assess_query_quality
assess_query_quality(query) ==
    LET query_lower == to_lowercase(query)
        words == split_whitespace(query_lower)
        term_matches ==
            Cardinality({ i \in 1..Len(api_terms) : contains(query_lower, api_terms[i]) })
        term_score == FMin(FDivSmall(FInt(term_matches), 3), FLit(1, 1))
        length_score ==
            IF Len(words) = 0 THEN FLit(1, 10)
            ELSE IF Len(words) = 1 THEN FLit(3, 10)
            ELSE IF Len(words) <= 3 THEN FLit(6, 10)
            ELSE FLit(9, 10)
    IN IF words = <<>> THEN FLit(1, 10)
       ELSE FMin(FAdd(FMul(length_score, FLit(6, 10)), FMul(term_score, FLit(4, 10))),
                 FLit(1, 1))

\* variant of calculate_confidence: no early return on an empty match list
\* (max_score is then matches.first()...unwrap_or(0.0))
ConfidenceNoEmptyCase(query, ms) ==
    LET max_score == IF ms = <<>> THEN 0 ELSE ms[1].score
    IN FClamp(FAdd(FMul(max_score, FLit(7, 10)),
                   FMul(assess_query_quality(query), FLit(3, 10))),
              FLit(1, 10), FLit(1, 1))

\* variant of calculate_confidence: the last match's score where the code
\* takes the first
ConfidenceLastMatch(query, ms) ==
    IF ms = <<>> THEN FLit(1, 10)
    ELSE FClamp(FAdd(FMul(ms[Len(ms)].score, FLit(7, 10)),
                     FMul(assess_query_quality(query), FLit(3, 10))),
                FLit(1, 10), FLit(1, 1))

\* RagPipeline::calculate_confidence
calculate_confidence(query, ms) ==
    IF ms = <<>> THEN FLit(1, 10)
    ELSE LET max_score == ms[1].score
             query_quality == assess_query_quality(query)
             confidence == FAdd(FMul(max_score, FLit(7, 10)),
                                FMul(query_quality, FLit(3, 10)))
         IN FClamp(confidence, FLit(1, 10), FLit(1, 1))

-----------------------------------------------------------------------------
(* Bounded inputs of the retrieval pipeline *)

\* the longest corpus a pipeline is built over
MaxCorpus == 6
\* the most words a refined query grows to
MaxQueryWords == 2
\* the largest limit passed to get_top_matches
MaxLimit == 5

\* FreshserviceScraper::new: base_url
BaseUrl == "https://api.freshservice.com"

\* endpoint records of the shapes extraction produces: the built-in catalog,
\* a code-block record (name = "METHOD path", no parameters), a section
\* record (name = description = heading), and two records with a parameter table
Pool ==
    fallback_endpoint_extraction \o
    << ApiEndpoint("POST /api/v2/tickets/{id}/notes", "Create Ticket Note",
         "POST", "/api/v2/tickets/{id}/notes", <<>>,
         Some("curl -v -u api_key:X -H \"Content-Type: application/json\" -X POST -d '{ \"body\":\"Hi tom, Still Angry\" }' 'https://domain.freshservice.com/api/v2/tickets/{id}/notes'")),
       ApiEndpoint("cURL Ticket View", "cURL Ticket View",
         "GET", "/api/v2/tickets/{id}", <<>>,
         Some("curl -v -u api_key:X -X GET 'https://domain.freshservice.com/api/v2/tickets/{id}'")),
       ApiEndpoint("Paging", "Page through results",
         "GET", "/api/v2/tickets/pages",
         << ApiParameter("page size", "integer", "Number of records", FALSE, None) >>,
         None),
       ApiEndpoint("Page", "",
         "GET", "/api/v2/tickets/filter",
         << ApiParameter("n", "integer", "The page size", FALSE, None) >>,
         None) >>

\* the first and the last n pool records, for every n up to MaxCorpus (the
\* empty corpus included)
Corpora ==
    { SubSeq(Pool, 1, n) : n \in 0..MaxCorpus } \cup
    { SubSeq(Pool, Len(Pool) - n + 1, Len(Pool)) : n \in 0..MaxCorpus }

Queries ==
    { "", "  ", "ticket", "tickets", "create ticket", "Create TICKET", "delete user",
      "Freshservice",
      "curl ticket view", "page size", "list",
      "please list the ticket api",
      "how to create a ticket with curl api" }

\* the words a client appends to refine a query
RefineWords == { "Create", "Page" }

Limits == { 0, 1, MaxLimit }

-----------------------------------------------------------------------------
(* Bounded inputs of the extraction: documents built from page fragments *)

\* the most fragments a document is built from
MaxFragments == 2

CurlCreate ==
    "curl -v -u api_key:X -H \"Content-Type: application/json\" -X POST -d '{\"subject\":\"Support\"}' 'https://domain.freshservice.com/api/v2/tickets'\n"
CurlView ==
    "curl -v -u api_key:X -X GET 'https://domain.freshservice.com/api/v2/tickets/{id}'\n"
CurlDelete ==
    "curl -v -u api_key:X -X DELETE 'https://domain.freshservice.com/api/v2/tickets/{id}'"
CurlList ==
    "curl -v -u api_key:X 'https://domain.freshservice.com/api/v2/tickets'"
CurlCreateNote ==
    "curl -v -u api_key:X -X POST -d '{\"body\":\"Hi\"}' 'https://domain.freshservice.com/api/v2/tickets/{id}/notes'"
CurlListNotes ==
    "\ncurl -v -u api_key:X \"/api/v2/tickets/{id}/notes\"\n"
CurlAgents ==
    "curl -v -u api_key:X -X GET 'https://domain.freshservice.com/api/v2/agents'"
CurlLegacy ==
    "curl -u api_key:X https://domain.freshservice.com/helpdesk/tickets.json"
CurlUpdate ==
    "curl -X PUT '/api/v2/tickets/{id}'"
CurlRestore ==
    "curl -X GET '/api/v2/tickets/{id}'\ncurl -X PUT https://domain.freshservice.com/api/v2/tickets/{id}/restore\n"
CurlRequester ==
    "curl -v -u api_key:X -X GET 'https://domain.freshservice.com/api/v2/requesters/{id}'\n# then: curl \"/api/v2/tickets?requester_id={id}\""
CurlCount ==
    "curl -u api_key:X https://domain.freshservice.com/api/v2/tickets/count"
CurlBypass ==
    "curl -v -u api_key:X -X PATCH https://domain.freshservice.com/api/v2/tickets/{id}/?bypass_mandatory=true"
HttpMerge ==
    "http -X POST https://domain.freshservice.com/api/v2/tickets/merge target:=2"
JsonResponse ==
    "{\"ticket\":{\"id\":1,\"subject\":\"Support\"}}"

\* A fragment: where it sits (before, inside or after the main section
\* div#tickets) and its elements, parents counted within the fragment
\* (0: the element the fragment is placed in)
Fragment(place, nodes) == [place |-> place, nodes |-> nodes]

Fragments ==
    { \* a section with heading, highlighted code block and parameter table
      Fragment("inside",
        << Node("div", "create_ticket", {}, 0, ""),
           Node("h2", "", {}, 1, " Create a Ticket "),
           Node("div", "", {"highlight"}, 1, ""),
           Node("pre", "", {}, 3, CurlCreate),
           Node("table", "", {}, 1, ""),
           Node("tr", "", {}, 5, ""),
           Node("th", "", {}, 6, "Attribute"),
           Node("th", "", {}, 6, "Description"),
           Node("tr", "", {}, 5, ""),
           Node("td", "", {}, 9, "subject"),
           Node("td", "", {}, 9, "Subject of the ticket. Mandatory"),
           Node("tr", "", {}, 5, ""),
           Node("td", "", {}, 12, "priority"),
           Node("td", "", {}, 12, "Priority of the ticket. Default: 1"),
           Node("td", "", {}, 12, " Number "),
           Node("tr", "", {}, 5, ""),
           Node("td", "", {}, 16, " "),
           Node("td", "", {}, 16, "Reserved"),
           Node("tr", "", {}, 5, ""),
           Node("td", "", {}, 19, "source"),
           Node("td", "", {}, 19, "REQUIRED. Number of the channel"),
           Node("tr", "", {}, 5, ""),
           Node("td", "", {}, 22, "tags"),
           Node("td", "", {}, 22, "Array of tags") >>),
      \* a plain section
      Fragment("inside",
        << Node("div", "view_ticket", {}, 0, ""),
           Node("h2", "", {}, 1, "View a Ticket"),
           Node("pre", "", {}, 1, CurlView) >>),
      \* code blocks in a div without id; the URL of the second one has a
      \* slash ahead of its query string
      Fragment("inside",
        << Node("div", "", {"section"}, 0, ""),
           Node("h2", "", {}, 1, "Delete a Ticket"),
           Node("pre", "", {}, 1, CurlDelete),
           Node("pre", "", {}, 1, CurlBypass) >>),
      \* a container div Strategy A passes over
      Fragment("inside",
        << Node("div", "ticket_attributes", {}, 0, ""),
           Node("pre", "", {}, 1, CurlList) >>),
      \* a section with two code blocks of different keys
      Fragment("inside",
        << Node("div", "ticket_notes", {}, 0, ""),
           Node("pre", "", {}, 1, CurlCreateNote),
           Node("pre", "", {}, 1, CurlListNotes) >>),
      \* a section whose code block is not a curl command
      Fragment("inside",
        << Node("div", "ticket_response", {}, 0, ""),
           Node("h2", "", {}, 1, "Response"),
           Node("pre", "", {}, 1, JsonResponse) >>),
      \* a section with a quoted bare path, then a block of two commands
      Fragment("inside",
        << Node("div", "update_ticket", {}, 0, ""),
           Node("h2", "", {}, 1, "Update a Ticket"),
           Node("pre", "", {}, 1, CurlUpdate),
           Node("pre", "", {}, 1, CurlRestore) >>),
      \* a section whose code block names a method and a path without being
      \* a curl command, around a section without code block
      Fragment("inside",
        << Node("div", "ticket_merge", {}, 0, ""),
           Node("h2", "", {}, 1, "Merge Tickets"),
           Node("div", "ticket_merge_note", {}, 1, "Merging cannot be undone."),
           Node("pre", "", {}, 1, HttpMerge) >>),
      \* a section of another resource; its second command names a ticket path
      \* after the URL of the other resource
      Fragment("inside",
        << Node("div", "agents", {}, 0, ""),
           Node("h2", "", {}, 1, "All Agents"),
           Node("pre", "", {}, 1, CurlAgents),
           Node("pre", "", {}, 1, CurlRequester) >>),
      \* a section ahead of the main section with the key of create_ticket
      Fragment("before",
        << Node("div", "child_ticket", {}, 0, ""),
           Node("h2", "", {}, 1, "Create a Child Ticket"),
           Node("pre", "", {}, 1, CurlCreate) >>),
      \* after the main section: a section whose command has no /api/v2 path,
      \* then a section whose command has no -X token
      Fragment("after",
        << Node("div", "ticket_legacy", {}, 0, ""),
           Node("pre", "", {}, 1, CurlLegacy),
           Node("div", "ticket_count", {}, 0, ""),
           Node("pre", "", {}, 3, CurlCount) >>) }

\* the elements of a fragment placed in `container`, after `offset` elements
Shift(nodes, container, offset) ==
    [k \in 1..Len(nodes) |->
       [nodes[k] EXCEPT !.parent = IF @ = 0 THEN container ELSE @ + offset]]

RECURSIVE Place(_, _, _)
Place(frags, container, offset) ==
    IF frags = <<>> THEN <<>>
    ELSE Shift(Head(frags).nodes, container, offset)
         \o Place(Tail(frags), container, offset + Len(Head(frags).nodes))

\* Html::parse_document of a page: the fragments placed before the main
\* section, the main section div#tickets around those placed inside it
\* (absent when there are none), then the fragments placed after it
BuildDocument(frags) ==
    LET before == Place(SelectSeq(frags, LAMBDA f : f.place = "before"), 0, 0)
        inside == SelectSeq(frags, LAMBDA f : f.place = "inside")
        main == IF inside = <<>> THEN <<>>
                ELSE << Node("div", "tickets", {}, 0, "") >>
                     \o Place(inside, Len(before) + 1, Len(before) + 1)
    IN before \o main
       \o Place(SelectSeq(frags, LAMBDA f : f.place = "after"), 0,
                Len(before) + Len(main))

Documents ==
    { BuildDocument(fs) : fs \in UNION { [1..n -> Fragments] : n \in 0..MaxFragments } }

-----------------------------------------------------------------------------
(* State *)

VARIABLES
    documentation,  \* RagPipeline.documentation: the snapshot the pipeline holds
    pc,             \* the position of the query being handled
    query,          \* the query string of the request
    scores,         \* the score of each endpoint for the query, in document order
    prev_scores,    \* the scores for the query before it was refined
    matches,        \* the Vec<(&ApiEndpoint, f32)> the ranker returned
    limit,          \* the limit get_top_matches was called with
    context,        \* format_context's context string
    max_score,      \* format_context's second component
    confidence,     \* calculate_confidence's result
    query_quality,  \* calculate_confidence's local query_quality, once computed
    borrowed,       \* the &ScrapedDocumentation get_documentation returned
    document,       \* the parsed page extract_endpoints is given
    xpc,            \* the position of the extraction
    endpoints,      \* extract_endpoints' Vec<ApiEndpoint>
    seen_paths,     \* extract_endpoints' HashSet of "METHOD path" keys
    scraped,        \* the Result scrape_ticket_attributes returned
    server,         \* the position of run_server
    fetches,        \* the GET requests for the source page sent so far
    tasks           \* the locals of each query-handling task of the server

ragVars == <<documentation, pc, query, scores, prev_scores, matches, limit,
             context, max_score, confidence, query_quality, borrowed>>

scrapeVars == <<document, xpc, endpoints, seen_paths, scraped>>

serveVars == <<server, fetches, tasks>>

vars == <<ragVars, scrapeVars, serveVars>>

\* RagPipeline::new over a snapshot; no query has been handled
InitRag ==
    /\ documentation \in { ScrapedDocumentation(BaseUrl, c, 0) : c \in Corpora }
    /\ pc = "idle"
    /\ query = None
    /\ scores = <<>>
    /\ prev_scores = None
    /\ matches = <<>>
    /\ limit = None
    /\ context = None
    /\ max_score = None
    /\ confidence = None
    /\ query_quality = None
    /\ borrowed = None
    /\ document = <<>>
    /\ xpc = "off"
    /\ endpoints = <<>>
    /\ seen_paths = {}
    /\ scraped = None
    /\ server = "off"
    /\ fetches = 0
    /\ tasks = <<>>

\* the query handler's call of find_relevant_endpoints (server.rs:49)
FindRelevantEndpoints(q) ==
    /\ pc = "idle"
    /\ pc' = "found"
    /\ query' = Some(q)
    /\ scores' = ScoreAll(documentation.endpoints, q)
    /\ prev_scores' = None
    /\ matches' = find_relevant_endpoints(documentation.endpoints, q)
    /\ UNCHANGED <<documentation, limit, context, max_score, confidence,
                   query_quality, borrowed>>
    /\ UNCHANGED scrapeVars
    /\ UNCHANGED serveVars

\* a call of the helper get_top_matches
GetTopMatches(q, n) ==
    /\ pc = "idle"
    /\ pc' = "top"
    /\ query' = Some(q)
    /\ scores' = ScoreAll(documentation.endpoints, q)
    /\ prev_scores' = None
    /\ limit' = Some(n)
    /\ matches' = get_top_matches(documentation.endpoints, q, n)
    /\ UNCHANGED <<documentation, context, max_score, confidence, query_quality,
                   borrowed>>
    /\ UNCHANGED scrapeVars
    /\ UNCHANGED serveVars

\* the handler's call of format_context on the matches (server.rs:50)
FormatContext ==
    /\ pc = "found"
    /\ pc' = "formatted"
    /\ context' = Some(format_context(documentation.endpoints, matches)[1])
    /\ max_score' = Some(format_context(documentation.endpoints, matches)[2])
    /\ UNCHANGED <<documentation, query, scores, prev_scores, matches, limit,
                   confidence, query_quality, borrowed>>
    /\ UNCHANGED scrapeVars
    /\ UNCHANGED serveVars

\* the handler's call of calculate_confidence (server.rs:58)
CalculateConfidence ==
    /\ pc = "formatted"
    /\ pc' = "done"
    /\ confidence' = Some(calculate_confidence(query[1], matches))
    /\ query_quality' = IF matches = <<>> THEN None
                        ELSE Some(assess_query_quality(query[1]))
    /\ UNCHANGED <<documentation, query, scores, prev_scores, matches, limit,
                   context, max_score, borrowed>>
    /\ UNCHANGED scrapeVars
    /\ UNCHANGED serveVars

\* variant of GetDocumentation: the snapshot is moved out of the pipeline
\* (std::mem::take), which is left with the default, empty documentation
GetDocumentationTaken ==
    /\ pc = "idle"
    /\ pc' = "borrowed"
    /\ borrowed' = Some(documentation)
    /\ documentation' = ScrapedDocumentation("", <<>>, 0)
    /\ UNCHANGED <<query, scores, prev_scores, matches, limit, context,
                   max_score, confidence, query_quality>>
    /\ UNCHANGED scrapeVars
    /\ UNCHANGED serveVars

\* a call of get_documentation (the debug route, server.rs:97)
GetDocumentation ==
    /\ pc = "idle"
    /\ pc' = "borrowed"
    /\ borrowed' = Some(get_documentation(RagPipelineNew(documentation)))
    /\ UNCHANGED <<documentation, query, scores, prev_scores, matches, limit, context,
                   max_score, confidence, query_quality>>
    /\ UNCHANGED scrapeVars
    /\ UNCHANGED serveVars

\* the reply is sent; matches, context and confidence are dropped
Reply ==
    /\ pc \in {"done", "top", "borrowed"}
    /\ pc' = "idle"
    /\ query' = None
    /\ scores' = <<>>
    /\ prev_scores' = None
    /\ matches' = <<>>
    /\ limit' = None
    /\ context' = None
    /\ max_score' = None
    /\ confidence' = None
    /\ query_quality' = None
    /\ borrowed' = None
    /\ UNCHANGED documentation
    /\ UNCHANGED scrapeVars
    /\ UNCHANGED serveVars

\* the client sends its (non-empty) query again with one more word appended
RefineQuery(w) ==
    /\ pc = "done"
    /\ Len(split_whitespace(query[1])) \in 1..(MaxQueryWords - 1)
    /\ pc' = "found"
    /\ query' = Some(query[1] \o " " \o w)
    /\ prev_scores' = Some(scores)
    /\ scores' = ScoreAll(documentation.endpoints, query[1] \o " " \o w)
    /\ matches' = find_relevant_endpoints(documentation.endpoints, query[1] \o " " \o w)
    /\ context' = None
    /\ max_score' = None
    /\ confidence' = None
    /\ query_quality' = None
    /\ borrowed' = None
    /\ UNCHANGED <<documentation, limit>>
    /\ UNCHANGED scrapeVars
    /\ UNCHANGED serveVars

NextRag ==
    \/ \E q \in Queries : FindRelevantEndpoints(q)
    \/ \E q \in Queries, n \in Limits : GetTopMatches(q, n)
    \/ FormatContext
    \/ CalculateConfidence
    \/ GetDocumentation
    \/ Reply
    \/ \E w \in RefineWords : RefineQuery(w)

SpecRag == InitRag /\ [][NextRag]_vars

-----------------------------------------------------------------------------
(* The extraction: scrape_ticket_attributes and extract_endpoints *)

\* the page has been fetched and parsed; no pipeline has been built yet
InitExtract ==
    /\ document \in Documents
    /\ xpc = "strategy1"
    /\ endpoints = <<>>
    /\ seen_paths = {}
    /\ scraped = None
    /\ server = "off"
    /\ fetches = 0
    /\ tasks = <<>>
    /\ documentation = None
    /\ pc = "unbuilt"
    /\ query = None
    /\ scores = <<>>
    /\ prev_scores = None
    /\ matches = <<>>
    /\ limit = None
    /\ context = None
    /\ max_score = None
    /\ confidence = None
    /\ query_quality = None
    /\ borrowed = None

\* Strategy A: every div whose id contains "ticket", in document order
TicketDivStrategy ==
    /\ xpc = "strategy1"
    /\ xpc' = "strategy2"
    /\ \E acc \in { TicketDivLoop(document, Select(document, 0, "div[id*='ticket']"),
                                  Acc(endpoints, seen_paths)) } :
          /\ endpoints' = acc.endpoints
          /\ seen_paths' = acc.seen_paths
    /\ UNCHANGED <<document, scraped>>
    /\ UNCHANGED ragVars
    /\ UNCHANGED serveVars

\* Strategy B: the code blocks of the first div#tickets, when there is one
CodeBlockStrategy ==
    /\ xpc = "strategy2"
    /\ xpc' = "check"
    /\ \E acc \in { CodeEndpointsLoop(
                      CodeEndpoints(document, Select(document, 0, "div#tickets")),
                      Acc(endpoints, seen_paths)) } :
          /\ endpoints' = acc.endpoints
          /\ seen_paths' = acc.seen_paths
    /\ UNCHANGED <<document, scraped>>
    /\ UNCHANGED ragVars
    /\ UNCHANGED serveVars

\* nothing was extracted: the built-in catalog is returned
UseFallback ==
    /\ xpc = "check"
    /\ endpoints = <<>>
    /\ xpc' = "returned"
    /\ \E returned \in { WithFallback(endpoints) } :
          /\ endpoints' = returned
          /\ scraped' = Some(ScrapedDocumentation(BaseUrl, returned, 0))
    /\ UNCHANGED <<document, seen_paths>>
    /\ UNCHANGED ragVars
    /\ UNCHANGED serveVars

\* something was extracted: it is returned
ReturnScraped ==
    /\ xpc = "check"
    /\ endpoints # <<>>
    /\ xpc' = "returned"
    /\ \E returned \in { WithFallback(endpoints) } :
          /\ endpoints' = returned
          /\ scraped' = Some(ScrapedDocumentation(BaseUrl, returned, 0))
    /\ UNCHANGED <<document, seen_paths>>
    /\ UNCHANGED ragVars
    /\ UNCHANGED serveVars

NextExtract ==
    \/ TicketDivStrategy
    \/ CodeBlockStrategy
    \/ UseFallback
    \/ ReturnScraped

SpecExtract == InitExtract /\ [][NextExtract]_vars

-----------------------------------------------------------------------------
(* The serving process: src/main.rs, src/web/server.rs, src/llm/groq_client.rs *)

\* the most query-handling tasks in flight at a time
MaxTasks == 2

\* the fragment whose section has the given id
SectionOfId(id) == CHOOSE f \in Fragments : f.nodes[1].id = id

\* the pages the source URL answers with: the body of an error response (the
\* status of the response is not looked at), a page of one section and a
\* page of two
Pages ==
    { << Node("h1", "", {}, 0, "404 Not Found") >>,
      BuildDocument(<< SectionOfId("create_ticket") >>),
      BuildDocument(<< SectionOfId("view_ticket"), SectionOfId("update_ticket") >>) }

ServeQueries == { "create ticket", "update" }

\* what the chat-completions request comes to: no response, a response with
\* an error status, a success response whose body is no JSON, and a success
\* response with the content of the first choice (None: not a string)
LlmOutcomes ==
    { [kind |-> "send error", content |-> None],
      [kind |-> "error status", content |-> None],
      [kind |-> "bad json", content |-> None],
      [kind |-> "ok", content |-> Some(" Send a POST request to /api/v2/tickets.\n")],
      [kind |-> "ok", content |-> Some("  ")],
      [kind |-> "ok", content |-> None] }

\* GroqClient::generate_answer: Ok(answer) is Some(answer); Err(_) is None
\* (the handler only prints the error)
generate_answer(outcome) ==
    IF outcome.kind # "ok" THEN None
    ELSE IF trim(IF outcome.content # None THEN outcome.content[1]
                 ELSE "Sorry, I couldn't generate an answer.") = ""
    THEN Some("Sorry, I couldn't generate an answer.")
    ELSE Some(trim(IF outcome.content # None THEN outcome.content[1]
                   ELSE "Sorry, I couldn't generate an answer."))

\* the handler's explanation string (server.rs:60-64)
Explanation(eps, ms, conf) ==
    "Found " \o IntStr(Len(ms)) \o " relevant endpoints. "
    \o (IF ms # <<>>
        THEN "Best match: '" \o eps[ms[1].ep].name \o "' with score "
             \o Fmt2(ms[1].score) \o ". "
        ELSE "")
    \o "Overall confidence: " \o Fmt2(conf)

\* variant of Answer: on an LLM error the answer is an apology without the context
AnswerWithoutContext(ctx, generated) ==
    IF trim(ctx) = ""
    THEN "I couldn't find any relevant information in the Freshservice documentation for your query. Please try asking about specific API endpoints like creating tickets, updating tickets, or ticket attributes."
    ELSE IF generated # None THEN generated[1]
    ELSE "I found some relevant information but encountered an error processing it."

\* the handler's answer (server.rs:67-77); generated is the result of the
\* LLM call, which is made only when the context is not blank
Answer(ctx, generated) ==
    IF trim(ctx) = ""
    THEN "I couldn't find any relevant information in the Freshservice documentation for your query. Please try asking about specific API endpoints like creating tickets, updating tickets, or ticket attributes."
    ELSE IF generated # None THEN generated[1]
    ELSE "I found some relevant information but encountered an error processing it. Here's what I found:\n\n" \o ctx

\* Ok(warp::reply::json(&QueryResponse { answer, sources, confidence, explanation }))
QueryResponse(answer, conf, explanation) ==
    [rejected |-> FALSE, answer |-> answer,
     sources |-> << "Freshservice API Documentation" >>,
     confidence |-> conf, explanation |-> explanation]

\* the locals of a task that handles no request; generated is the result of
\* the LLM call once it was made
IdleTask ==
    [pc |-> "idle", query |-> None, matches |-> <<>>, context |-> None,
     max_score |-> None, confidence |-> None, explanation |-> None,
     generated |-> None, reply |-> None]

\* the page has not been requested; no route is served
InitServe ==
    /\ server = "starting"
    /\ fetches = 0
    /\ tasks = [t \in 1..MaxTasks |-> IdleTask]
    /\ document = <<>>
    /\ xpc = "start"
    /\ endpoints = <<>>
    /\ seen_paths = {}
    /\ scraped = None
    /\ documentation = None
    /\ pc = "unbuilt"
    /\ query = None
    /\ scores = <<>>
    /\ prev_scores = None
    /\ matches = <<>>
    /\ limit = None
    /\ context = None
    /\ max_score = None
    /\ confidence = None
    /\ query_quality = None
    /\ borrowed = None

\* scrape_ticket_attributes sends its GET request (freshservice_scraper.rs:37)
SendRequest ==
    /\ server = "starting"
    /\ xpc = "start"
    /\ xpc' = "sent"
    /\ fetches' = fetches + 1
    /\ UNCHANGED <<document, endpoints, seen_paths, scraped, server, tasks>>
    /\ UNCHANGED ragVars

\* variant of SendFails: the request is sent again
SendFailsRetried ==
    /\ xpc = "sent"
    /\ xpc' = "start"
    /\ UNCHANGED <<document, endpoints, seen_paths, scraped>>
    /\ UNCHANGED ragVars
    /\ UNCHANGED serveVars

\* send().await fails: scrape_ticket_attributes returns the error
SendFails ==
    /\ xpc = "sent"
    /\ xpc' = "send failed"
    /\ UNCHANGED <<document, endpoints, seen_paths, scraped>>
    /\ UNCHANGED ragVars
    /\ UNCHANGED serveVars

\* response.text().await fails: scrape_ticket_attributes returns the error
BodyFails ==
    /\ xpc = "sent"
    /\ xpc' = "body failed"
    /\ UNCHANGED <<document, endpoints, seen_paths, scraped>>
    /\ UNCHANGED ragVars
    /\ UNCHANGED serveVars

\* the body arrives and is parsed
ReceivePage(page) ==
    /\ xpc = "sent"
    /\ xpc' = "strategy1"
    /\ document' = page
    /\ UNCHANGED <<endpoints, seen_paths, scraped>>
    /\ UNCHANGED ragVars
    /\ UNCHANGED serveVars

\* variant of ServeFails: the server is started over the built-in catalog
ServeOverCatalog ==
    /\ server = "starting"
    /\ xpc \in {"send failed", "body failed"}
    /\ server' = "serving"
    /\ documentation' = ScrapedDocumentation(BaseUrl, fallback_endpoint_extraction, 0)
    /\ UNCHANGED <<pc, query, scores, prev_scores, matches, limit, context,
                   max_score, confidence, query_quality, borrowed>>
    /\ UNCHANGED <<fetches, tasks>>
    /\ UNCHANGED scrapeVars

\* run_server returns the scrape's error (server.rs:25) and main returns it
ServeFails ==
    /\ server = "starting"
    /\ xpc \in {"send failed", "body failed"}
    /\ server' = "failed"
    /\ UNCHANGED <<fetches, tasks>>
    /\ UNCHANGED ragVars
    /\ UNCHANGED scrapeVars

\* RagPipeline::new(documentation) and warp::serve (server.rs:26, 118)
BuildPipeline ==
    /\ server = "starting"
    /\ xpc = "returned"
    /\ server' = "serving"
    /\ documentation' = get_documentation(RagPipelineNew(scraped[1]))
    /\ UNCHANGED <<pc, query, scores, prev_scores, matches, limit, context,
                   max_score, confidence, query_quality, borrowed>>
    /\ UNCHANGED <<fetches, tasks>>
    /\ UNCHANGED scrapeVars

\* variant of HandleQuery: the matches another task holds are used when
\* there are any (a result kept across requests)
HandleQueryCached(t, q) ==
    /\ server = "serving"
    /\ tasks[t].pc = "idle"
    /\ tasks' = [tasks EXCEPT ![t] =
                   [IdleTask EXCEPT
                      !.pc = "found", !.query = Some(q),
                      !.matches =
                          IF \E u \in DOMAIN tasks : tasks[u].matches # <<>>
                          THEN tasks[CHOOSE u \in DOMAIN tasks : tasks[u].matches # <<>>].matches
                          ELSE find_relevant_endpoints(documentation.endpoints, q)]]
    /\ UNCHANGED <<server, fetches>>
    /\ UNCHANGED ragVars
    /\ UNCHANGED scrapeVars

\* a POST /query is taken up by task t: find_relevant_endpoints (server.rs:49)
HandleQuery(t, q) ==
    /\ server = "serving"
    /\ tasks[t].pc = "idle"
    /\ tasks' = [tasks EXCEPT ![t] =
                   [IdleTask EXCEPT
                      !.pc = "found", !.query = Some(q),
                      !.matches = find_relevant_endpoints(documentation.endpoints, q)]]
    /\ UNCHANGED <<server, fetches>>
    /\ UNCHANGED ragVars
    /\ UNCHANGED scrapeVars

\* format_context (server.rs:50)
HandleFormat(t) ==
    /\ tasks[t].pc = "found"
    /\ \E formatted \in { format_context(documentation.endpoints, tasks[t].matches) } :
          tasks' = [tasks EXCEPT ![t].pc = "formatted",
                                 ![t].context = Some(formatted[1]),
                                 ![t].max_score = Some(formatted[2])]
    /\ UNCHANGED <<server, fetches>>
    /\ UNCHANGED ragVars
    /\ UNCHANGED scrapeVars

\* calculate_confidence and the explanation (server.rs:58-64)
HandleConfidence(t) ==
    /\ tasks[t].pc = "formatted"
    /\ \E conf \in { calculate_confidence(tasks[t].query[1], tasks[t].matches) } :
          tasks' = [tasks EXCEPT
                      ![t].pc = "confident",
                      ![t].confidence = Some(conf),
                      ![t].explanation =
                          Some(Explanation(documentation.endpoints, tasks[t].matches, conf))]
    /\ UNCHANGED <<server, fetches>>
    /\ UNCHANGED ragVars
    /\ UNCHANGED scrapeVars

\* the LLM call comes back and the handler replies (server.rs:67-86)
HandleAnswer(t, outcome) ==
    /\ tasks[t].pc = "confident"
    /\ \E called \in { IF trim(tasks[t].context[1]) = "" THEN None
                       ELSE Some(generate_answer(outcome)) } :
          tasks' = [tasks EXCEPT
                      ![t].pc = "replied",
                      ![t].generated = called,
                      ![t].reply =
                          Some(QueryResponse(
                                 Answer(tasks[t].context[1],
                                        IF called = None THEN None ELSE called[1]),
                                 tasks[t].confidence[1],
                                 tasks[t].explanation[1]))]
    /\ UNCHANGED <<server, fetches>>
    /\ UNCHANGED ragVars
    /\ UNCHANGED scrapeVars

\* a GET /debug is answered by task t (server.rs:94-109)
DebugRoute(t) ==
    /\ server = "serving"
    /\ tasks[t].pc = "idle"
    /\ \E doc \in { get_documentation(RagPipelineNew(documentation)) } :
          tasks' = [tasks EXCEPT
                      ![t].pc = "replied",
                      ![t].reply =
                          Some([total_endpoints |-> Len(doc.endpoints),
                                endpoints |-> [k \in 1..Len(doc.endpoints) |->
                                                 doc.endpoints[k].name],
                                sample_endpoint |->
                                    IF doc.endpoints = <<>> THEN None
                                    ELSE Some(doc.endpoints[1])])]
    /\ UNCHANGED <<server, fetches>>
    /\ UNCHANGED ragVars
    /\ UNCHANGED scrapeVars

\* a request for /health is answered by task t (server.rs:90-91)
HealthRoute(t) ==
    /\ server = "serving"
    /\ tasks[t].pc = "idle"
    /\ tasks' = [tasks EXCEPT ![t].pc = "replied",
                              ![t].reply = Some([status |-> "healthy"])]
    /\ UNCHANGED <<server, fetches>>
    /\ UNCHANGED ragVars
    /\ UNCHANGED scrapeVars

\* the reply is sent and the task's locals are dropped
Respond(t) ==
    /\ tasks[t].pc = "replied"
    /\ tasks' = [tasks EXCEPT ![t] = IdleTask]
    /\ UNCHANGED <<server, fetches>>
    /\ UNCHANGED ragVars
    /\ UNCHANGED scrapeVars

NextServe ==
    \/ SendRequest
    \/ SendFails
    \/ BodyFails
    \/ \E page \in Pages : ReceivePage(page)
    \/ TicketDivStrategy
    \/ CodeBlockStrategy
    \/ UseFallback
    \/ ReturnScraped
    \/ ServeFails
    \/ BuildPipeline
    \/ \E t \in 1..MaxTasks, q \in ServeQueries : HandleQuery(t, q)
    \/ \E t \in 1..MaxTasks : HandleFormat(t)
    \/ \E t \in 1..MaxTasks : HandleConfidence(t)
    \/ \E t \in 1..MaxTasks, outcome \in LlmOutcomes : HandleAnswer(t, outcome)
    \/ \E t \in 1..MaxTasks : DebugRoute(t)
    \/ \E t \in 1..MaxTasks : HealthRoute(t)
    \/ \E t \in 1..MaxTasks : Respond(t)

SpecServe == InitServe /\ [][NextServe]_vars

-----------------------------------------------------------------------------
(* Properties of the extraction (checked under SpecExtract) *)

KeyOf(e) == EndpointKey(e.method, e.path)

NoTwoWithSameKey(es) ==
    \A i, j \in 1..Len(es) : KeyOf(es[i]) = KeyOf(es[j]) => i = j

\* every record Strategy A comes upon: one per non-container ticket div that
\* parses, in document order
SectionRecords(doc) ==
    SectionEndpoints(doc, SectionDivs(doc, Select(doc, 0, "div[id*='ticket']")))

\* every record Strategy B comes upon: one per ticket curl block of the first
\* div#tickets, in document order
CodeBlockRecords(doc) ==
    IF Select(doc, 0, "div#tickets") = <<>> THEN <<>>
    ELSE CodeBlockEndpoints(doc, Select(doc, Select(doc, 0, "div#tickets")[1],
                                        "pre, .highlight"))

Encountered(doc) == SectionRecords(doc) \o CodeBlockRecords(doc)

\* of the records sharing a key, the first one only
FirstOfEachKey(es) ==
    SelectSeq([k \in 1..Len(es) |-> [at |-> k, e |-> es[k]]],
              LAMBDA x : \A j \in 1..(x.at - 1) : KeyOf(es[j]) # KeyOf(x.e))

Kept(es) == [k \in 1..Len(FirstOfEachKey(es)) |-> FirstOfEachKey(es)[k].e]

\* C1: in every state the endpoint list holds no two records with the same
\* "METHOD path" key, the returned list included; and what the two strategies
\* leave is, of all the records they came upon (all Strategy A sections in
\* document order, then all Strategy B code blocks in document order), the
\* first record of each key and nothing else, in that order.
C1_OneRecordPerKeyFirstKept ==
    /\ NoTwoWithSameKey(endpoints)
    /\ scraped # None => NoTwoWithSameKey(scraped[1].endpoints)
    /\ xpc = "check" => endpoints = Kept(Encountered(document))
    /\ (xpc = "returned" /\ seen_paths # {}) =>
          scraped[1].endpoints = Kept(Encountered(document))

\* C1 witness: a returned list for a document in which a Strategy B code
\* block carries the key of an earlier, different Strategy A record
C1_KeySharedAcrossStrategies ==
    /\ xpc = "returned"
    /\ \E i \in 1..Len(SectionRecords(document)) :
         \E j \in 1..Len(CodeBlockRecords(document)) :
            /\ KeyOf(SectionRecords(document)[i]) = KeyOf(CodeBlockRecords(document)[j])
            /\ SectionRecords(document)[i] # CodeBlockRecords(document)[j]
            /\ \E k \in 1..Len(scraped[1].endpoints) :
                  scraped[1].endpoints[k] = SectionRecords(document)[i]

\* C2: what extraction returns is Ok with a non-empty list: exactly the
\* five-entry built-in catalog when the two strategies found nothing, and
\* exactly what they found, one record per key seen and no catalog entry
\* added, when they found something.
C2_NonEmptyFallbackOnlyWhenNothingScraped ==
    xpc = "returned" =>
        /\ scraped # None
        /\ scraped[1].endpoints # <<>>
        /\ scraped[1].endpoints = endpoints
        /\ seen_paths = {} =>
              /\ scraped[1].endpoints = fallback_endpoint_extraction
              /\ Len(scraped[1].endpoints) = 5
              /\ [k \in 1..5 |-> KeyOf(scraped[1].endpoints[k])] =
                    << "POST /api/v2/tickets", "GET /api/v2/tickets/{id}",
                       "GET /api/v2/tickets", "PUT /api/v2/tickets/{id}",
                       "DELETE /api/v2/tickets/{id}" >>
        /\ seen_paths # {} =>
              /\ Len(scraped[1].endpoints) = Cardinality(seen_paths)
              /\ { KeyOf(scraped[1].endpoints[k]) : k \in 1..Len(scraped[1].endpoints) }
                    = seen_paths

\* C2 witness: a document with ticket sections and code blocks from which
\* neither strategy extracts a record, answered with the catalog
C2_FallbackOnBarrenDocument ==
    /\ xpc = "returned"
    /\ Select(document, 0, "div[id*='ticket']") # <<>>
    /\ Select(document, 0, "pre, .highlight") # <<>>
    /\ seen_paths = {}
    /\ scraped[1].endpoints = fallback_endpoint_extraction

\* the method tokens in the order the cascades test them
MethodTokens == << "POST", "PUT", "DELETE", "PATCH", "GET" >>

\* the method named by the first token, in that order, that the text holds
NamedMethod(text) ==
    LET held == { k \in 1..Len(MethodTokens) : contains(text, "-X " \o MethodTokens[k]) }
    IN IF held = {} THEN None
       ELSE Some(MethodTokens[CHOOSE k \in held : \A l \in held : k <= l])

\* p is the capture of the first path pattern that matches anywhere in the
\* text, less trailing quotes and backslashes
IsFirstPatternCapture(text, p) ==
    \E k \in 1..Len(PathPatterns) :
        /\ Captures(text, PathPatterns[k]) # None
        /\ \A l \in 1..(k - 1) : Captures(text, PathPatterns[l]) = None
        /\ p = CleanPath(Captures(text, PathPatterns[k])[1])
        /\ CharAt(p, Len(p)) \notin {"'", "\"", "\\"}

\* the records the two strategies made (the catalog's records are not extracted)
Extracted == IF seen_paths = {} THEN <<>> ELSE endpoints

\* C14: every extracted record carries the method named by the first of the
\* tokens -X POST, -X PUT, -X DELETE, -X PATCH, -X GET (in that order) that
\* its curl text holds, and the path captured by the first of the four
\* patterns (full URL, single-quoted, double-quoted, bare) that matches
\* anywhere in the text, stripped of trailing quotes and backslashes; the text
\* curl -X PUT '/api/v2/tickets/{id}' yields PUT and /api/v2/tickets/{id}, and
\* a text with a quoted path and -X GET ahead of a full URL and -X PUT yields
\* PUT and the path of the full URL.
C14_MethodByTokenOrderPathByPatternOrder ==
    \A k \in 1..Len(Extracted) :
        /\ NamedMethod(Extracted[k].curl_example[1]) # None =>
              Extracted[k].method = NamedMethod(Extracted[k].curl_example[1])[1]
        /\ IsFirstPatternCapture(Extracted[k].curl_example[1], Extracted[k].path)
        /\ Extracted[k].curl_example[1] = CurlUpdate =>
              Extracted[k].method = "PUT" /\ Extracted[k].path = "/api/v2/tickets/{id}"
        /\ Extracted[k].curl_example[1] = trim(CurlRestore) =>
              /\ Extracted[k].method = "PUT"
              /\ Extracted[k].path = "/api/v2/tickets/{id}/restore"

\* C14 witness: records were extracted from the text curl -X PUT
\* '/api/v2/tickets/{id}' and from the text of two commands
C14_PutExampleExtracted ==
    /\ xpc = "check"
    /\ CurlUpdate = "curl -X PUT '/api/v2/tickets/{id}'"
    /\ \E k \in 1..Len(Extracted) : Extracted[k].curl_example = Some(CurlUpdate)
    /\ \E k \in 1..Len(Extracted) : Extracted[k].curl_example = Some(trim(CurlRestore))

\* the curl texts of the sections Strategy A parses and of the code blocks
\* Strategy B reads
SectionTexts(doc) ==
    { trim(ElemText(doc, Select(doc, d, "pre, .highlight")[1])) :
        d \in { x \in { Select(doc, 0, "div[id*='ticket']")[k] :
                         k \in 1..Len(Select(doc, 0, "div[id*='ticket']")) } :
                  /\ doc[x].id \notin ContainerIds
                  /\ Select(doc, x, "pre, .highlight") # <<>> } }

\* no path pattern matches the text
NoPathIn(text) ==
    \A k \in 1..Len(PathPatterns) : Captures(text, PathPatterns[k]) = None

\* C15: no record in the endpoint list or in the returned documentation
\* carries the placeholder path "/api/v2/unknown", and a code-block text in
\* which no path pattern matches yields no record.
C15_NoPlaceholderPath ==
    /\ \A k \in 1..Len(endpoints) : endpoints[k].path # "/api/v2/unknown"
    /\ scraped # None =>
          \A k \in 1..Len(scraped[1].endpoints) :
              scraped[1].endpoints[k].path # "/api/v2/unknown"
    /\ \A k \in 1..Len(Extracted) : ~NoPathIn(Extracted[k].curl_example[1])

\* C15 witness: Strategy A parsed a section whose curl command holds no
\* /api/v2 path, and records of other sections were extracted
C15_SectionWithoutPathSkipped ==
    /\ xpc = "check"
    /\ \E t \in SectionTexts(document) :
          /\ contains(t, "curl")
          /\ NoPathIn(t)
          /\ extract_path_from_text(t) = "/api/v2/unknown"
    /\ endpoints # <<>>

\* the sections Strategy A parses: the divs whose id contains "ticket", less
\* the containers
ParsedSections(doc) ==
    { x \in { Select(doc, 0, "div[id*='ticket']")[k] :
                k \in 1..Len(Select(doc, 0, "div[id*='ticket']")) } :
        doc[x].id \notin ContainerIds }

MainCodeBlocks(doc) ==
    IF Select(doc, 0, "div#tickets") = <<>> THEN {}
    ELSE { Select(doc, Select(doc, 0, "div#tickets")[1], "pre, .highlight")[k] :
             k \in 1..Len(Select(doc, Select(doc, 0, "div#tickets")[1], "pre, .highlight")) }

\* the records Strategy B added to those Strategy A left
AddedByCodeBlocks(es, doc) == SubSeq(es, Len(Kept(SectionRecords(doc))) + 1, Len(es))

\* the code block holds "curl" and "/tickets", but not in the path extracted
MentionsTicketsOutsidePath(text) ==
    /\ contains(text, "curl")
    /\ contains(text, "/tickets")
    /\ ~contains(extract_path_from_text(text), "/tickets")

\* the texts of the code blocks Strategy B reads
MainCodeTexts(doc) == { ElemText(doc, c) : c \in MainCodeBlocks(doc) }

\* every record of `added` comes from a text of `texts` that holds "curl"
\* and "/tickets" and carries the path extracted from it, which holds
\* "/tickets"; a text that mentions "/tickets" only outside the extracted
\* path is the text of no record
FromTicketCodeBlocks(added, texts) ==
    /\ \A k \in 1..Len(added) :
          /\ contains(added[k].path, "/tickets")
          /\ \E text \in texts :
                /\ contains(text, "curl")
                /\ contains(text, "/tickets")
                /\ added[k].curl_example = Some(trim(text))
                /\ added[k].path = extract_path_from_text(text)
    /\ \A text \in texts :
          MentionsTicketsOutsidePath(text) =>
              \A k \in 1..Len(added) : added[k].curl_example # Some(trim(text))

\* C23: every record contributed by Strategy B comes from a code block inside
\* div#tickets whose text contains both "curl" and "/tickets", and its
\* extracted path itself contains "/tickets"; a code block whose text
\* mentions "/tickets" only outside the extracted path contributes no record.
C23_CodeBlockRecordsAreTicketPaths ==
    xpc = "check" =>
        FromTicketCodeBlocks(AddedByCodeBlocks(endpoints, document),
                             MainCodeTexts(document))

\* C23 witness: Strategy B added a record and passed over a curl block that
\* names a ticket path after the URL its path is extracted from
C23_TicketsMentionedOutsidePath ==
    /\ xpc = "check"
    /\ AddedByCodeBlocks(endpoints, document) # <<>>
    /\ \E c \in MainCodeBlocks(document) :
          /\ MentionsTicketsOutsidePath(ElemText(document, c))
          /\ extract_path_from_text(ElemText(document, c)) = "/api/v2/requesters/{id}"
          /\ contains(ElemText(document, c), "/api/v2/tickets")

HttpMethods == { "GET", "POST", "PUT", "PATCH", "DELETE" }

\* C24: every ApiEndpoint of the endpoint list and of the Documentation
\* extraction returns has a method among GET, POST, PUT, PATCH, DELETE, and
\* a record whose code block contains none of the -X tokens has method GET.
C24_MethodAmongFiveDefaultGet ==
    /\ \A k \in 1..Len(endpoints) :
          /\ endpoints[k].method \in HttpMethods
          /\ NamedMethod(endpoints[k].curl_example[1]) = None =>
                endpoints[k].method = "GET"
    /\ scraped # None =>
          \A k \in 1..Len(scraped[1].endpoints) :
              /\ scraped[1].endpoints[k].method \in HttpMethods
              /\ NamedMethod(scraped[1].endpoints[k].curl_example[1]) = None =>
                    scraped[1].endpoints[k].method = "GET"

\* C24 witness: the returned Documentation holds a record of each strategy
\* whose code block contains no -X token, and a record of another method
C24_TokenlessCommandsOfBothStrategies ==
    /\ xpc = "returned"
    /\ \E k \in 1..Len(Kept(SectionRecords(document))) :
          /\ NamedMethod(scraped[1].endpoints[k].curl_example[1]) = None
          /\ scraped[1].endpoints[k].method = "GET"
    /\ \E k \in (Len(Kept(SectionRecords(document))) + 1)..Len(scraped[1].endpoints) :
          /\ NamedMethod(scraped[1].endpoints[k].curl_example[1]) = None
          /\ scraped[1].endpoints[k].method = "GET"
    /\ \E k \in 1..Len(scraped[1].endpoints) : scraped[1].endpoints[k].method # "GET"

\* the segments of a path: what stands between the slashes after "/api/v2"
PathSegments(p) ==
    LET rest == SubSeq(p, 9, Len(p))
        cuts == {0, Len(rest) + 1} \cup { i \in 1..Len(rest) : CharAt(rest, i) = "/" }
    IN { SubSeq(rest, a + 1, b - 1) :
           <<a, b>> \in { c \in cuts \X cuts :
                            c[1] < c[2] /\ \A x \in cuts : x <= c[1] \/ x >= c[2] } }

\* a non-empty run of [A-Za-z0-9_-]
IsPlainSegment(g) ==
    /\ Len(g) >= 1
    /\ \A i \in 1..Len(g) : CharAt(g, i) \in PathChars \ {"/", "{", "}"}

\* a plain segment or a {name} placeholder
IsSegment(g) ==
    \/ IsPlainSegment(g)
    \/ /\ Len(g) >= 3
       /\ CharAt(g, 1) = "{"
       /\ CharAt(g, Len(g)) = "}"
       /\ IsPlainSegment(SubSeq(g, 2, Len(g) - 1))

\* /api/v2/<segment>(/<segment>)*
FollowsPathGrammar(p) ==
    StartsAt(p, 1, "/api/v2/") /\ \A g \in PathSegments(p) : IsSegment(g)

\* "/api/v2/" and one or more characters of the class of the patterns
IsPathRun(p) ==
    /\ StartsAt(p, 1, "/api/v2/")
    /\ Len(p) >= 9
    /\ \A i \in 9..Len(p) : CharAt(p, i) \in PathChars

ExtractedParameters ==
    UNION { { Extracted[k].parameters[j] : j \in 1..Len(Extracted[k].parameters) } :
              k \in 1..Len(Extracted) }

\* the trimmed cell texts of the table rows of a document
RowCells(doc) ==
    { TrimmedTexts(doc, Select(doc, Select(doc, 0, "tr")[k], "td")) :
        k \in 1..Len(Select(doc, 0, "tr")) }

InferredTypes == { "string", "integer", "boolean", "array" }

\* C26 as stated: every ApiParameter the parameter table parser produces has
\* a non-empty name and a type among string, integer, boolean, array, both
\* when the type is inferred from the description and when it is taken from
\* a third table cell.
C26_TypeAmongFour ==
    \A p \in ExtractedParameters : p.name # "" /\ p.param_type \in InferredTypes

\* C26 as amended: every ApiParameter the parser produces has a non-empty
\* name; its type is among string, integer, boolean, array when the row has
\* no third cell and the type is inferred from the description, and it is
\* the trimmed, lowercased text of the third cell, whatever that text is,
\* when the row has one.
C26_TypeInferredOrThirdCell ==
    \A p \in ExtractedParameters :
        /\ p.name # ""
        /\ \E cells \in RowCells(document) :
              /\ Len(cells) >= 2
              /\ cells[1] = p.name
              /\ cells[2] = p.description
              /\ Len(cells) = 2 => p.param_type \in InferredTypes
              /\ Len(cells) >= 3 => p.param_type = to_lowercase(cells[3])

\* C26 witness: the returned Documentation holds a parameter typed "number"
\* by its third cell and parameters of inferred type, of a table with a row
\* of empty name
C26_ThirdCellTypeKept ==
    /\ xpc = "returned"
    /\ \E cells \in RowCells(document) : Len(cells) >= 2 /\ cells[1] = ""
    /\ \E p \in ExtractedParameters : p.name = "priority" /\ p.param_type = "number"
    /\ \E p \in ExtractedParameters : p.name = "source" /\ p.param_type = "integer"
    /\ \E p \in ExtractedParameters : p.name = "tags" /\ p.param_type = "array"

\* C27 as stated: for every parameter row parsed, the ApiParameter has
\* required = true if and only if its description contains the word
\* "required", whatever the case of its letters.
C27_RequiredIffRequiredWord ==
    \A p \in ExtractedParameters :
        p.required <=> contains(to_lowercase(p.description), "required")

\* C27 as amended: for every parameter row parsed, the ApiParameter has
\* required = true if and only if its description contains "required" or
\* "mandatory", whatever the case of the letters.
C27_RequiredIffRequiredOrMandatory ==
    \A p \in ExtractedParameters :
        p.required <=> \/ contains(to_lowercase(p.description), "required")
                       \/ contains(to_lowercase(p.description), "mandatory")

\* C27 witness: the returned Documentation holds a parameter required by
\* the word "Mandatory" alone, one required by "REQUIRED" and one not required
C27_RequiredByMandatory ==
    /\ xpc = "returned"
    /\ \E p \in ExtractedParameters :
          /\ p.required
          /\ contains(p.description, "Mandatory")
          /\ ~contains(to_lowercase(p.description), "required")
    /\ \E p \in ExtractedParameters : p.required /\ contains(p.description, "REQUIRED")
    /\ \E p \in ExtractedParameters : ~p.required

-----------------------------------------------------------------------------
(* Properties of the retrieval pipeline (checked under SpecRag) *)

\* the ranker has returned for the current query
Ranked == pc \in {"found", "formatted", "done"}

\* the number of blocks a context string holds
RenderedBlocks(ctx) == CountOcc(ctx, "[Relevance: ")

C4_SortedDescendingStable ==
    Ranked =>
        \A i, j \in 1..Len(matches) :
            i < j => /\ matches[i].score >= matches[j].score
                     /\ (matches[i].score = matches[j].score
                            => matches[i].ep < matches[j].ep)

\* C4 witness: the result holds a tie, and a match that the sort moved ahead
\* of an endpoint that precedes it in the documentation
C4_TieAndReordering ==
    /\ Ranked
    /\ \E i, j \in 1..Len(matches) : i < j /\ matches[i].score = matches[j].score
    /\ \E i, j \in 1..Len(matches) : i < j /\ matches[i].ep > matches[j].ep

\* C5: an endpoint is in the result of find_relevant_endpoints if and only if
\* its score for the query is strictly greater than 0.1, once, with that score.
C5_ReturnedIffAboveThreshold ==
    Ranked =>
        /\ { matches[k].ep : k \in 1..Len(matches) }
             = { i \in 1..Len(documentation.endpoints) : scores[i] > FLit(1, 10) }
        /\ \A k, l \in 1..Len(matches) : matches[k].ep = matches[l].ep => k = l
        /\ \A k \in 1..Len(matches) : matches[k].score = scores[matches[k].ep]

\* C5 witness: one endpoint scores exactly 0.1 and is left out, another is returned
C5_ThresholdScoreLeftOut ==
    /\ Ranked
    /\ matches # <<>>
    /\ \E i \in 1..Len(scores) :
          /\ scores[i] = FLit(1, 10)
          /\ \A k \in 1..Len(matches) : matches[k].ep # i

\* C6: every score calculate_relevance_score returns is at least 0 and at most 1,
\* also when the raw weighted sum exceeds the ceiling 7.0.
C6_ScoreWithinUnitInterval ==
    \A i \in 1..Len(scores) : scores[i] >= 0 /\ scores[i] <= FLit(1, 1)

\* C6 witness: an endpoint whose raw sum for the query is above 7.0 scores 1.0
C6_RawSumAboveCeiling ==
    /\ Ranked
    /\ \E i \in 1..Len(scores) :
          /\ RawScore(documentation.endpoints[i], to_lowercase(query[1])) > FLit(7, 1)
          /\ scores[i] = FLit(1, 1)

\* the word RefineQuery appended: the last word of the query
AppendedWord == LET ws == split_whitespace(query[1]) IN ws[Len(ws)]

\* the query before RefineQuery appended " " and the word
QueryBefore == SubSeq(query[1], 1, Len(query[1]) - Len(AppendedWord) - 1)

\* the whole query q occurs in a field the scorer tests for the whole query
WholeQueryOccurs(endpoint, q) ==
    LET ql == to_lowercase(q) IN
    \/ contains(to_lowercase(endpoint.name), ql)
    \/ contains(to_lowercase(endpoint.description), ql)
    \/ contains(to_lowercase(endpoint.path), ql)
    \/ \E k \in 1..Len(endpoint.parameters) :
          \/ contains(to_lowercase(endpoint.parameters[k].name), ql)
          \/ contains(to_lowercase(endpoint.parameters[k].description), ql)

\* C7 as stated: appending to the query a word that occurs verbatim in an
\* endpoint's name never lowers that endpoint's score.
C7_AppendingNameWordNeverLowers ==
    prev_scores # None =>
        \A i \in 1..Len(scores) :
            contains(documentation.endpoints[i].name, AppendedWord)
                => scores[i] >= prev_scores[1][i]

\* C7 as amended: appending to a query q a word that occurs verbatim in an
\* endpoint's name never lowers that endpoint's score, provided q as a whole
\* is not a substring of the endpoint's name, description, path or of a
\* parameter's name or description (the whole-query bonuses, which the
\* longer query can lose).
C7_AppendingNeverLowersWithoutWholeQueryBonus ==
    prev_scores # None =>
        \A i \in 1..Len(scores) :
            /\ contains(documentation.endpoints[i].name, AppendedWord)
            /\ ~WholeQueryOccurs(documentation.endpoints[i], QueryBefore)
            => scores[i] >= prev_scores[1][i]

\* C7 witness: a word of an endpoint's name was appended to a query that had no
\* whole-query bonus on it, and the endpoint's score rose
C7_AppendedWordRaisedScore ==
    /\ prev_scores # None
    /\ \E i \in 1..Len(scores) :
          /\ contains(documentation.endpoints[i].name, AppendedWord)
          /\ ~WholeQueryOccurs(documentation.endpoints[i], QueryBefore)
          /\ prev_scores[1][i] > 0
          /\ scores[i] > prev_scores[1][i]

\* C8: calculate_confidence returns exactly 0.1 when the match list is empty,
\* for every query.
C8_ConfidenceFloorOnNoMatches ==
    pc = "done" /\ matches = <<>> => confidence = Some(FLit(1, 10))

\* C8 witness: confidence was computed on no matches for a query of many
\* words and domain keywords
C8_NoMatchesKeywordQuery ==
    /\ pc = "done"
    /\ matches = <<>>
    /\ Len(split_whitespace(query[1])) >= 4
    /\ contains(query[1], "curl") /\ contains(query[1], "api")

\* C9: on a non-empty match list calculate_confidence returns
\* 0.7 * (score of the first match) + 0.3 * query_quality(query), clamped to
\* [0.1, 1.0]; the confidence is within [0.1, 1.0] for every query and match list.
C9_ConfidenceFormulaAndRange ==
    pc = "done" =>
        /\ confidence[1] >= FLit(1, 10)
        /\ confidence[1] <= FLit(1, 1)
        /\ matches # <<>> =>
              confidence[1] =
                  FClamp(FAdd(FMul(matches[1].score, FLit(7, 10)),
                              FMul(assess_query_quality(query[1]), FLit(3, 10))),
                         FLit(1, 10), FLit(1, 1))

\* C9 witness: confidence computed on several matches of different scores,
\* strictly inside the range
C9_ConfidenceOnSeveralMatches ==
    /\ pc = "done"
    /\ Len(matches) >= 2
    /\ matches[1].score # matches[Len(matches)].score
    /\ confidence[1] > FLit(1, 10)
    /\ confidence[1] < FLit(1, 1)

\* C10: over a documentation of zero endpoints, for every query the ranker
\* returns no match, format_context returns ("No relevant endpoints found.", 0.0)
\* and calculate_confidence returns 0.1.
C10_EmptyDocumentation ==
    documentation.endpoints = <<>> =>
        /\ matches = <<>>
        /\ (pc \in {"formatted", "done"} =>
                context = Some("No relevant endpoints found.") /\ max_score = Some(0))
        /\ (pc = "done" => confidence = Some(FLit(1, 10)))

\* C10 witness: a query of a domain keyword was handled to the end over the
\* empty documentation
C10_QueryHandledOnEmptyDocumentation ==
    /\ documentation.endpoints = <<>>
    /\ pc = "done"
    /\ query = Some("ticket")

\* the pipeline holds exactly the five-entry built-in catalog
OverCatalog == documentation.endpoints = fallback_endpoint_extraction

\* C11: for the query "create ticket" over the five-entry built-in catalog,
\* find_relevant_endpoints returns a non-empty list whose first match is the
\* endpoint Create Ticket (POST /api/v2/tickets), with a score strictly
\* greater than 0.5.
C11_CreateTicketRankedFirst ==
    Ranked /\ OverCatalog /\ query = Some("create ticket") =>
        /\ matches # <<>>
        /\ documentation.endpoints[matches[1].ep].name = "Create Ticket"
        /\ documentation.endpoints[matches[1].ep].method = "POST"
        /\ documentation.endpoints[matches[1].ep].path = "/api/v2/tickets"
        /\ matches[1].score > FLit(1, 2)

\* C11 witness: the query was ranked over the catalog and other endpoints
\* matched it as well, below the first
C11_CreateTicketAheadOfOthers ==
    /\ Ranked /\ OverCatalog /\ query = Some("create ticket")
    /\ Len(matches) >= 2
    /\ matches[1].score > matches[2].score

\* C12: for the query "delete user" over the five-entry built-in catalog,
\* every endpoint's score is at most 0.3, that of Delete Ticket (whose name,
\* description and method all hold the word "delete") included, so no
\* returned match has a score above 0.3.
C12_DeleteUserScoresAtMostThreeTenths ==
    Ranked /\ OverCatalog /\ query = Some("delete user") =>
        /\ \A i \in 1..Len(scores) : scores[i] <= FLit(3, 10)
        /\ \A k \in 1..Len(matches) : matches[k].score <= FLit(3, 10)

\* C12 witness: the query was ranked over the catalog, and Delete Ticket,
\* "delete" in its name, description and method, is returned for it
C12_DeleteTicketReturnedBelowThreeTenths ==
    /\ Ranked /\ OverCatalog /\ query = Some("delete user")
    /\ \E k \in 1..Len(matches) :
          /\ documentation.endpoints[matches[k].ep].name = "Delete Ticket"
          /\ contains(to_lowercase(documentation.endpoints[matches[k].ep].description), "delete")
          /\ documentation.endpoints[matches[k].ep].method = "DELETE"
          /\ matches[k].score > FLit(1, 10)

\* the number of domain keywords that occur in the lower-cased query
KeywordsIn(q) ==
    Cardinality({ i \in 1..Len(api_terms) : contains(to_lowercase(q), api_terms[i]) })

\* a query of five words that holds at least three domain keywords
IsFiveWordKeywordQuery(q) ==
    Len(split_whitespace(q)) = 5 /\ KeywordsIn(q) >= 3

\* one-word queries: without a keyword, with one, and with three or more
\* keywords run together
OneWordQueries ==
    { "tickets", "hello", "CURL", " list ", "getlistticket",
      "createupdatedeleteviewfetchretrieve" }

\* five-word queries that hold at least three keywords: those over three
\* keyword words, and some with words that are no keywords
FiveWordQueries ==
    { q \in { Join(ws, " ") : ws \in [1..5 -> {"get", "List", "tickets"}] }
             \cup { "please list the ticket api", "my get of List tickets",
                    "  fetch   a\tticket via curl ", "GET delete or update it",
                    "curl request response what now" } :
        IsFiveWordKeywordQuery(q) }

OneWordQualities == { assess_query_quality(q) : q \in OneWordQueries }

FiveWordQualities == { assess_query_quality(q) : q \in FiveWordQueries }

\* C13: the query quality of a one-word query is strictly lower than the
\* query quality of every five-word query that holds three domain keywords
\* (keywords counted by substring on the lower-cased query): the quality
\* calculate_confidence computed for a one-word query is below that of every
\* such five-word query, and the quality it computed for such a five-word
\* query is above that of every one-word query.
C13_OneWordBelowFiveWordsThreeKeywords ==
    query_quality # None =>
        /\ Len(split_whitespace(query[1])) = 1 =>
              /\ query_quality[1] = assess_query_quality(query[1])
              /\ \A v \in FiveWordQualities : query_quality[1] < v
        /\ IsFiveWordKeywordQuery(query[1]) =>
              /\ query_quality[1] = assess_query_quality(query[1])
              /\ \A v \in OneWordQualities : v < query_quality[1]

\* C13 witness: the quality of a five-word query with three keywords was
\* computed, and a one-word query with three keywords is among those compared
C13_FiveWordQueryAssessed ==
    /\ pc = "done"
    /\ query_quality # None
    /\ IsFiveWordKeywordQuery(query[1])
    /\ KeywordsIn(query[1]) = 3
    /\ \E q \in OneWordQueries : KeywordsIn(q) >= 3
    /\ FiveWordQueries # {}

\* C16: no call on the pipeline changes the snapshot it was built over:
\* every step of find_relevant_endpoints, get_top_matches, format_context,
\* calculate_confidence and get_documentation leaves the documentation as it
\* was (the same endpoints in the same order with the same fields, the same
\* base_url and scraped_at), and what get_documentation hands out is that
\* very snapshot.
C16_SnapshotUnchangedByCalls ==
    /\ [](borrowed # None => borrowed = Some(documentation))
    /\ [][documentation' = documentation]_vars

\* C16 witness: get_documentation has returned the snapshot of a pipeline
\* built over a non-empty documentation
C16_SnapshotBorrowed ==
    /\ pc = "borrowed"
    /\ documentation.endpoints # <<>>
    /\ borrowed = Some(documentation)

\* where the block terminators of a context string start
Terminators(ctx) ==
    { i \in 1..(Len(ctx) - 5) : SubSeq(ctx, i, i + 5) = "\n---\n\n" }

RECURSIVE PiecesBetween(_, _, _)
PiecesBetween(ctx, start, ends) ==
    IF ends = {} THEN <<>>
    ELSE LET e == CHOOSE x \in ends : \A y \in ends : x <= y
         IN <<SubSeq(ctx, start, e - 1)>> \o PiecesBetween(ctx, e + 6, ends \ {e})

\* the pieces of a context string that end with the block terminator, in order
ContextPieces(ctx) == PiecesBetween(ctx, 1, Terminators(ctx))

\* the piece is the block of the match: its header line, then its
\* description and path lines
IsBlockOf(piece, endpoint, score) ==
    StartsAt(piece, 1,
        "[Relevance: " \o Fmt2(score) \o "] " \o endpoint.name
            \o " (" \o endpoint.method \o ")\n"
            \o "Description: " \o endpoint.description \o "\n"
            \o "Path: " \o endpoint.path \o "\n")

\* the context is `pieces`, one block per match among the first five, in order
BlocksInOrder(pieces, ms) ==
    /\ Len(pieces) = (IF Len(ms) < 5 THEN Len(ms) ELSE 5)
    /\ \A k \in 1..Len(pieces) :
           IsBlockOf(pieces[k], documentation.endpoints[ms[k].ep], ms[k].score)

\* C21: for a non-empty match list format_context renders exactly
\* min(len(matches), 5) blocks, one per match in the given order, and returns
\* as top score the score of the first match; on the list
\* find_relevant_endpoints returned, that is the maximum score over all
\* returned matches.
C21_BlocksInOrderTopScoreFirst ==
    pc \in {"formatted", "done"} /\ matches # <<>> =>
        /\ ends_with(context[1], "\n---\n\n")
        /\ BlocksInOrder(ContextPieces(context[1]), matches)
        /\ max_score = Some(matches[1].score)
        /\ \A i \in 1..Len(matches) : matches[i].score <= max_score[1]

\* C21 witness: a context was rendered for more than five matches of
\* different scores, and for fewer than five
C21_ContextOfManyMatches ==
    /\ pc = "formatted"
    /\ Len(matches) > 5
    /\ matches[1].score > matches[Len(matches)].score
    /\ max_score = Some(matches[1].score)
    /\ Len(ContextPieces(context[1])) = 5

Tenths(cond, weight) == IF cond THEN weight ELSE 0

\* the signals of the scorer that hold for an endpoint and a lowercased
\* query, their weights summed in tenths as whole numbers
SignalTenths(endpoint, query_lower, query_words) ==
    Tenths(contains(to_lowercase(endpoint.name), query_lower), 20)
    + 5 * WordHits(query_words, to_lowercase(endpoint.name))
    + Tenths(contains(to_lowercase(endpoint.description), query_lower), 10)
    + 3 * WordHits(query_words, to_lowercase(endpoint.description))
    + Tenths(contains(to_lowercase(endpoint.path), query_lower), 8)
    + Tenths(MethodMatches(to_lowercase(endpoint.method), query_words), 8)
    + Tenths(ParamBonus(endpoint.parameters, 1, query_lower) = FLit(4, 10), 4)
    + Tenths(ParamBonus(endpoint.parameters, 1, query_lower) = FLit(2, 10), 2)
    + Tenths(contains(query_lower, "curl") /\ endpoint.curl_example # None, 10)

\* the raw sum a score in [0, 1] stands for, 7 times the score, in tenths
\* rounded to a whole number (the significand is cut to 16 bits first)
RawTenthsOf(score) ==
    IF score = 0 THEN 0
    ELSE (((FMant(score) \div 256) * 70) + 2^(0 - FExp(score) - 9))
             \div 2^(0 - FExp(score) - 8)

AtMostSeventy(n) == IF n > 70 THEN 70 ELSE n

MentionsDomain(query_lower) ==
    contains(query_lower, "api") \/ contains(query_lower, "freshservice")

\* C28 as stated: the relevance scorer adds a domain-keyword bonus of 0.5 to
\* the raw score when the query mentions "api" or "freshservice": the raw
\* sum of an endpoint is then 0.5 higher than the sum of its other signals.
C28_DomainKeywordBonusAdded ==
    Ranked /\ MentionsDomain(to_lowercase(query[1])) =>
        \A i \in 1..Len(scores) :
            RawTenthsOf(scores[i]) =
                AtMostSeventy(SignalTenths(documentation.endpoints[i],
                                           to_lowercase(query[1]),
                                           split_whitespace(to_lowercase(query[1]))) + 5)

\* C28 as amended: the relevance scorer adds no domain-keyword bonus: for
\* every query, also one that mentions "api" or "freshservice", the raw sum
\* of an endpoint is the sum of the name, description, path, method,
\* parameter and curl-example signals alone (capped at 7.0 by the
\* normalisation), and it is 0 when none of these signals holds.
C28_NoDomainKeywordBonus ==
    Ranked =>
        \A i \in 1..Len(scores) :
            RawTenthsOf(scores[i]) =
                AtMostSeventy(SignalTenths(documentation.endpoints[i],
                                           to_lowercase(query[1]),
                                           split_whitespace(to_lowercase(query[1]))))

\* C28 witness: scores were computed for a query that mentions "api" or
\* "freshservice" over a documentation with an endpoint none of whose
\* signals holds, which scores 0.0, and an endpoint that scores above it
C28_DomainWordsScoreNothing ==
    /\ pc = "formatted"
    /\ MentionsDomain(to_lowercase(query[1]))
    /\ \E i \in 1..Len(scores) :
          /\ scores[i] = 0
          /\ SignalTenths(documentation.endpoints[i], to_lowercase(query[1]),
                          split_whitespace(to_lowercase(query[1]))) = 0
    /\ \E i \in 1..Len(scores) : scores[i] > 0

\* C29: for the empty query string every endpoint of a non-empty corpus
\* passes the 0.1 threshold (the empty string is a substring of every name,
\* description and path): find_relevant_endpoints("") returns all endpoints
\* of the corpus, and calculate_confidence on that result is above the 0.1
\* floor.
C29_EmptyQueryMatchesEverything ==
    query = Some("") =>
        /\ Ranked =>
              /\ Len(matches) = Len(documentation.endpoints)
              /\ { matches[k].ep : k \in 1..Len(matches) }
                    = 1..Len(documentation.endpoints)
              /\ \A i \in 1..Len(scores) : scores[i] > FLit(1, 10)
              /\ \A i \in 1..Len(scores) :
                    RawTenthsOf(scores[i]) >= 20 + 10 + 8
        /\ pc = "done" /\ documentation.endpoints # <<>> =>
              confidence[1] > FLit(1, 10)

\* C29 witness: confidence was computed for the empty query over a corpus
\* of more than five endpoints, with and without parameters
C29_EmptyQueryOverCorpus ==
    /\ pc = "done"
    /\ query = Some("")
    /\ Len(documentation.endpoints) > 5
    /\ Len(matches) = Len(documentation.endpoints)
    /\ \E i \in 1..Len(scores) : documentation.endpoints[i].parameters = <<>>
    /\ \E i \in 1..Len(scores) : documentation.endpoints[i].parameters # <<>>
    /\ confidence[1] > FLit(1, 10)

-----------------------------------------------------------------------------
(* Properties of the serving process (checked under SpecServe) *)

\* the scrape returned an error
ScrapeFailed == xpc \in {"send failed", "body failed"}

\* task t handles a query
HandlesQuery(t) == tasks[t].query # None

\* task t has just made the call that brought it where it is, and holds
\* what the call gives for its query over the snapshot when the query is
\* handled alone on a fresh pipeline
HoldsResultOfCall(task, eps) ==
    /\ task.pc = "found" =>
          task.matches = find_relevant_endpoints(eps, task.query[1])
    /\ task.pc = "formatted" =>
          << task.context[1], task.max_score[1] >> = format_context(eps, task.matches)
    /\ task.pc = "confident" =>
          task.confidence[1] = calculate_confidence(task.query[1], task.matches)

\* no step changes what a task holds for the request it is handling
ResultsKept(t) ==
    HandlesQuery(t) /\ tasks'[t].pc # "idle" =>
        /\ tasks'[t].query = tasks[t].query
        /\ tasks'[t].matches = tasks[t].matches
        /\ tasks[t].context # None => tasks'[t].context = tasks[t].context
        /\ tasks[t].max_score # None => tasks'[t].max_score = tasks[t].max_score
        /\ tasks[t].confidence # None => tasks'[t].confidence = tasks[t].confidence

\* C17: what a task computes for its query (matches, context, confidence) is
\* what the query gives over the snapshot when it is handled alone on a
\* fresh pipeline, whatever the other tasks do meanwhile and whatever was
\* handled before; no step of any task changes what a task holds for its
\* request; and two tasks handling the same query hold the same results.
C17_ResultDependsOnQueryAndSnapshotOnly ==
    /\ [](/\ \A t \in DOMAIN tasks :
                HandlesQuery(t) => HoldsResultOfCall(tasks[t], documentation.endpoints)
          /\ \A t, u \in DOMAIN tasks :
                HandlesQuery(t) /\ HandlesQuery(u) /\ tasks[t].query = tasks[u].query =>
                   /\ tasks[t].matches = tasks[u].matches
                   /\ (tasks[t].context # None /\ tasks[u].context # None
                          => tasks[t].context = tasks[u].context)
                   /\ (tasks[t].confidence # None /\ tasks[u].confidence # None
                          => tasks[t].confidence = tasks[u].confidence))
    /\ [][\A t \in DOMAIN tasks : ResultsKept(t)]_vars

\* C17 witness: two tasks handle different queries at the same time, both
\* with matches, one with its confidence computed and one before
C17_TwoQueriesInFlight ==
    \E t, u \in DOMAIN tasks :
        /\ tasks[t].pc = "confident"
        /\ tasks[u].pc = "formatted"
        /\ tasks[t].query # tasks[u].query
        /\ tasks[t].matches # <<>>
        /\ tasks[u].matches # <<>>
        /\ tasks[t].matches # tasks[u].matches

\* C18: a scrape sends one request for the source page and no more; when the
\* request or the reading of the body fails, the scrape has returned an
\* error: no page was parsed, no strategy ran, the catalog was not
\* substituted, no documentation exists, and nothing of this changes later
\* (no retry).
C18_OneFetchFailureIsFatal ==
    /\ [](/\ fetches <= 1
          /\ xpc # "start" => fetches = 1
          /\ ScrapeFailed =>
                /\ document = <<>>
                /\ endpoints = <<>>
                /\ seen_paths = {}
                /\ scraped = None
                /\ documentation = None)
    /\ [][ScrapeFailed => /\ xpc' = xpc
                          /\ fetches' = fetches
                          /\ scraped' = None
                          /\ endpoints' = <<>>]_vars

\* C18 witness: the request failed after it was sent once, and run_server
\* has returned the error
C18_FetchFailedAfterOneRequest ==
    /\ xpc = "send failed"
    /\ fetches = 1
    /\ server = "failed"
    /\ scraped = None

\* C19: requests are handled only once the server serves, the server
\* serves only over the documentation of a scrape that returned Ok (one
\* request sent), it never serves when the scrape failed, and once the
\* pipeline is built no step replaces the snapshot, scrapes again or sends
\* another request.
C19_BuiltOnceBeforeServing ==
    /\ [](/\ \A t \in DOMAIN tasks : tasks[t].pc # "idle" => server = "serving"
          /\ server # "serving" => documentation = None
          /\ server = "serving" =>
                /\ xpc = "returned"
                /\ scraped # None
                /\ documentation = scraped[1]
                /\ fetches = 1
          /\ ScrapeFailed => server # "serving")
    /\ [][server = "serving" =>
             /\ server' = "serving"
             /\ documentation' = documentation
             /\ scraped' = scraped
             /\ xpc' = xpc
             /\ fetches' = fetches]_vars
    /\ [][server = "failed" => server' = "failed"]_vars

\* C19 witness: the server serves over the scraped documentation; one task
\* has answered a request while another handles a query
C19_ServingOverScrapedSnapshot ==
    /\ server = "serving"
    /\ seen_paths # {}
    /\ documentation = scraped[1]
    /\ \E t, u \in DOMAIN tasks :
          /\ tasks[t].pc = "replied"
          /\ tasks[t].reply[1] = [status |-> "healthy"]
          /\ tasks[u].pc = "found"

\* the LLM call of task t was made and returned an error
LlmFailed(t) == tasks[t].pc = "replied" /\ tasks[t].generated = Some(None)

\* C20: when the LLM call fails the handler still replies Ok: the answer is
\* the notice followed by the whole context format_context produced, and
\* the confidence and the explanation are those computed from the query and
\* the matches before the call, the same as in a reply after a successful call.
C20_ReplyOnLlmFailure ==
    \A t \in DOMAIN tasks :
        /\ LlmFailed(t) =>
              /\ tasks[t].reply # None
              /\ tasks[t].reply[1].rejected = FALSE
              /\ tasks[t].reply[1].answer =
                    "I found some relevant information but encountered an error processing it. Here's what I found:\n\n"
                    \o format_context(documentation.endpoints, tasks[t].matches)[1]
              /\ ends_with(tasks[t].reply[1].answer, tasks[t].context[1])
        /\ tasks[t].pc = "replied" /\ HandlesQuery(t) =>
              /\ tasks[t].reply[1].rejected = FALSE
              /\ tasks[t].reply[1].confidence =
                    calculate_confidence(tasks[t].query[1], tasks[t].matches)
              /\ tasks[t].reply[1].explanation =
                    Explanation(documentation.endpoints, tasks[t].matches,
                                calculate_confidence(tasks[t].query[1], tasks[t].matches))

\* C20 witness: the LLM call failed for a query with matches and the reply
\* carries the rendered blocks
C20_LlmFailedWithMatches ==
    \E t \in DOMAIN tasks :
        /\ LlmFailed(t)
        /\ tasks[t].matches # <<>>
        /\ RenderedBlocks(tasks[t].reply[1].answer) >= 1
        /\ tasks[t].reply[1].confidence > FLit(1, 10)

\* the answer the handler gives without calling the LLM
CannedAnswer ==
    "I couldn't find any relevant information in the Freshservice documentation for your query. Please try asking about specific API endpoints like creating tickets, updating tickets, or ticket attributes."

\* C30: format_context never returns an empty or whitespace-only context, so
\* the handler calls the LLM exactly once for every query, queries with zero
\* matches included (their context is "No relevant endpoints found."), and
\* the canned answer of the blank-context branch is returned in no
\* reachable state.
C30_LlmCalledOnceNeverCanned ==
    /\ [](\A t \in DOMAIN tasks :
            /\ tasks[t].context # None =>
                  /\ trim(tasks[t].context[1]) # ""
                  /\ tasks[t].matches = <<>> =>
                        tasks[t].context[1] = "No relevant endpoints found."
            /\ HandlesQuery(t) /\ tasks[t].pc # "replied" => tasks[t].generated = None
            /\ HandlesQuery(t) /\ tasks[t].pc = "replied" =>
                  /\ tasks[t].generated # None
                  /\ tasks[t].reply[1].answer # CannedAnswer)
    /\ [][\A t \in DOMAIN tasks :
            tasks[t].generated # None =>
                tasks'[t].generated = tasks[t].generated \/ tasks'[t].pc = "idle"]_vars

\* C30 witness: a query with zero matches was answered by the LLM, called
\* with the context "No relevant endpoints found."
C30_LlmCalledOnNoMatches ==
    \E t \in DOMAIN tasks :
        /\ tasks[t].pc = "replied"
        /\ HandlesQuery(t)
        /\ tasks[t].matches = <<>>
        /\ tasks[t].context = Some("No relevant endpoints found.")
        /\ tasks[t].generated = Some(Some("Send a POST request to /api/v2/tickets."))
        /\ tasks[t].reply[1].answer = "Send a POST request to /api/v2/tickets."

=============================================================================
